---------------------------- MODULE Spec2Model ----------------------------
(***************************************************************************)
(* Model of the adam_os artifact pipeline and inference-governance tools.  *)
(*                                                                         *)
(* The store is the set of files under .adam_os/ (path -> bytes), the set  *)
(* of directories the tools create, and the two append-only registries     *)
(* (one record per line).  Every tool is one action: the whole body of     *)
(* the tool function, its early returns and raises included.               *)
(*                                                                         *)
(* Abstractions.  File bytes written with canonical_dumps / json.dumps     *)
(* (sort_keys, compact separators) are modelled by the JSON object they    *)
(* encode; SHA-256 is modelled as a collision-free digest that wraps its   *)
(* pre-image; st_size is modelled by the number of newline-terminated      *)
(* units of the file.  Artifact ids are path-safe strings.                 *)
(***************************************************************************)
EXTENDS Naturals, Integers, Sequences, FiniteSets, TLC

VARIABLES
    files,          \* path -> content of every file under .adam_os/
    dirs,           \* directories created so far
    artReg,         \* lines of .adam_os/artifacts/artifact_registry.jsonl
    infReg,         \* lines of .adam_os/inference/inference_registry.jsonl
    issued,         \* uuid4 values already drawn by artifact.ingest
    providerCalls,  \* history: requests handed to a provider adapter
    gateLog,        \* history: parameter sets enforce_policy_gate returned
    edited,         \* history: the edits made to files from outside the tools
    ledger,         \* run id -> lines of .adam_os/runs/<run_id>.jsonl
    memStore,       \* store path -> lines of a memory JSONL store
    last,           \* the tool call made by the last step and its outcome (for a
                    \* dispatch also the number of execute_tool calls it made)
    procs,          \* concurrent callers: each one's position and local values
    written,        \* registry path -> the bytes the OS writes have appended to it
    inst            \* the fields of the RunLedger instance shared by the threads

conc == <<procs, written, inst>>

vars == <<files, dirs, artReg, infReg, issued, providerCalls, gateLog, edited,
          ledger, memStore, last, procs, written, inst>>

----------------------------------------------------------------------------
(* Bounds of the model *)

MaxArtRecords == 7
MaxIngests == 2
MaxInfRecords == 4
MaxTokensCap == 2
MaxOutsideEdits == 1

(* Values the callers supply *)

None == "<None>"
BadType == "<123>"          \* a truthy value that is not a string
Timestamps == {"2026-02-12T00:00:00Z"}
RawTexts == { <<"fact">>, <<"fact", "maybe", "what">> }
CallerIds == {"x"}
Uuids == {"uuid-1"}
MissingId == "missing"

----------------------------------------------------------------------------
(* Hashing, sizes, paths *)

Sha256(bytes) == [len64 |-> TRUE, hex |-> TRUE, of |-> bytes]

(* the hex digest of a canonical request body as a string usable as an id:
   one string per pre-image, spelled from the hashed fields *)
HexDigest(d) ==
    LET b == d.of IN
    "sha256-" \o b.kind \o "|" \o b.created_at_utc \o "|" \o b.snapshot_hash.of
              \o "|" \o b.provider \o "|" \o b.model
              \o "|" \o ToString(b.params.temperature)
              \o "|" \o ToString(b.params.max_tokens)
              \o "|" \o b.prompts.system_prompt \o "|" \o b.prompts.user_prompt

FileExists(fs, path) == path \in DOMAIN fs

sha256_file(fs, path) == Sha256(fs[path])

file_size_bytes(fs, path) ==
    LET c == fs[path] IN
    IF c.fmt = "text" THEN Len(c.text)
    ELSE IF c.fmt = "jsonl" THEN Len(c.lines)
    ELSE 1

WriteText(fs, path, content) ==
    [p \in DOMAIN fs \cup {path} |-> IF p = path THEN content ELSE fs[p]]

(* an unlink that leaves the file where it is *)
UnlinkSkipped(fs, path) == fs

Unlink(fs, path) == [p \in DOMAIN fs \ {path} |-> fs[p]]

ARTIFACT_ROOT == ".adam_os/artifacts"
RAW_DIR == ARTIFACT_ROOT \o "/raw"
SANITIZED_DIR == ARTIFACT_ROOT \o "/sanitized"
BUNDLES_DIR == ARTIFACT_ROOT \o "/bundles"
SPECS_DIR == ARTIFACT_ROOT \o "/specs"
WORK_ORDERS_DIR == ARTIFACT_ROOT \o "/work_orders"
SNAPSHOTS_DIR == ARTIFACT_ROOT \o "/snapshots"
INFERENCE_ROOT == ".adam_os/inference"
REQUESTS_DIR == INFERENCE_ROOT \o "/requests"
RESPONSES_DIR == INFERENCE_ROOT \o "/responses"
ERRORS_DIR == INFERENCE_ROOT \o "/errors"
RECEIPTS_DIR == INFERENCE_ROOT \o "/receipts"

ART_REGISTRY_PATH == ARTIFACT_ROOT \o "/artifact_registry.jsonl"
INF_REGISTRY_PATH == INFERENCE_ROOT \o "/inference_registry.jsonl"

PathOf(dir, id, ext) == <<dir, id, ext>>

INFERENCE_DIRS == {REQUESTS_DIR, RESPONSES_DIR, ERRORS_DIR, RECEIPTS_DIR}

(* the path lies under .adam_os/artifacts *)
UnderArtifactRoot(path) == path[1] \notin INFERENCE_DIRS

(* mkdir(parents=True, exist_ok=True) *)
MkdirP(ds, dir) ==
    ds \cup {dir} \cup (IF dir \in INFERENCE_DIRS \cup {INFERENCE_ROOT}
                         THEN {INFERENCE_ROOT} ELSE {ARTIFACT_ROOT})

(* x.strip() is non-empty: the callers' strings carry no outer blanks *)
IsNonEmptyStr(x) == x # None /\ x # BadType /\ x # ""

(* tool_input.get(k) or default *)
OrDefault(x, d) == IF x = None \/ x = "" THEN d ELSE x

----------------------------------------------------------------------------
(* Registry records and the append-only writers *)

ALLOWED_KINDS ==
    {"RAW", "SANITIZED", "BUNDLE_MANIFEST", "BUILD_SPEC", "WORK_ORDER",
     "SNAPSHOT_ARCHIVE"}

INFERENCE_ALLOWED_KINDS ==
    {"INFERENCE_REQUEST", "INFERENCE_RESPONSE", "INFERENCE_ERROR",
     "INFERENCE_RECEIPT"}

Record(artifact_id, kind, created_at_utc, sha, size, media_type, parents, notes, tags) ==
    [artifact_id |-> artifact_id, kind |-> kind,
     created_at_utc |-> created_at_utc, sha256 |-> sha, byte_size |-> size,
     media_type |-> media_type, parent_artifact_ids |-> parents,
     notes |-> notes, tags |-> tags]

(* ArtifactRecord.validate / InferenceArtifactRecord.validate: TRUE iff no raise *)
RecordValid(rec, kinds) ==
    /\ IsNonEmptyStr(rec.artifact_id)
    /\ rec.kind \in kinds
    /\ IsNonEmptyStr(rec.created_at_utc)
    /\ rec.sha256.len64
    /\ rec.byte_size >= 0
    /\ IsNonEmptyStr(rec.media_type)
    /\ \A i \in 1..Len(rec.parent_artifact_ids) :
           IsNonEmptyStr(rec.parent_artifact_ids[i])

(* a registry whose write replaces the last line instead of adding one *)
RegistryAppendOverwrite(reg, rec) ==
    IF reg = <<>> THEN <<rec>> ELSE [reg EXCEPT ![Len(reg)] = rec]

(* the open("a") + write(line) + write("\n") of append *)
RegistryAppend(reg, rec) == Append(reg, rec)

(* append_from_file: hash and size the file, build the record *)
RecordFromFile(fs, artifact_id, kind, created_at_utc, path, media_type, parents, notes, tags) ==
    Record(artifact_id, kind, created_at_utc, sha256_file(fs, path),
           file_size_bytes(fs, path), media_type, parents, notes, tags)

(* _registry_has: a line carrying both "artifact_id":"<id>" and "kind":"<kind>" *)
RegistryHas(reg, artifact_id, kind) ==
    \E i \in 1..Len(reg) :
        /\ {"artifact_id", "kind"} \subseteq DOMAIN reg[i]
        /\ reg[i].artifact_id = artifact_id
        /\ reg[i].kind = kind

----------------------------------------------------------------------------
(* Outcome of a tool call: the store after the call and what it returned *)

Outcome(ok, err, fs, ds, areg, ireg, out) ==
    [ok |-> ok, err |-> err, files |-> fs, dirs |-> ds, artReg |-> areg,
     infReg |-> ireg, out |-> out]

NoOut == [none |-> TRUE]

(* the call raised before it touched the store *)
Raise(err) == Outcome(FALSE, err, files, dirs, artReg, infReg, NoOut)

(* the call raised after some writes *)
RaiseAfter(err, fs, ds, areg, ireg) == Outcome(FALSE, err, fs, ds, areg, ireg, NoOut)

Call(tool, input, o) ==
    /\ Len(o.artReg) <= MaxArtRecords
    /\ Len(o.infReg) <= MaxInfRecords
    /\ files' = o.files
    /\ dirs' = o.dirs
    /\ artReg' = o.artReg
    /\ infReg' = o.infReg
    /\ edited' = edited
    /\ ledger' = ledger
    /\ memStore' = memStore
    /\ last' = [tool |-> tool, input |-> input, ok |-> o.ok, err |-> o.err,
                out |-> o.out]
    /\ UNCHANGED conc

----------------------------------------------------------------------------
(* artifact.ingest *)

IngestOutcome(inp, artifact_id) ==
    IF ~IsNonEmptyStr(inp.created_at_utc)
    THEN Raise("tool_input.created_at_utc must be a non-empty injected string")
    ELSE IF inp.content = <<>>
    THEN Raise("tool_input.content must be a non-empty string")
    ELSE LET media_type == OrDefault(inp.media_type, "text/plain") IN
    IF ~IsNonEmptyStr(media_type)
    THEN Raise("tool_input.media_type must be a non-empty string")
    ELSE IF ~IsNonEmptyStr(artifact_id)
    THEN Raise("tool_input.artifact_id must be a non-empty string if provided")
    ELSE
      LET ds == MkdirP(dirs, RAW_DIR)
          raw_path == PathOf(RAW_DIR, artifact_id, ".txt")
          fs == WriteText(files, raw_path, [fmt |-> "text", text |-> inp.content])
          rec == RecordFromFile(fs, artifact_id, "RAW", inp.created_at_utc,
                                raw_path, media_type, <<>>, "artifact.ingest",
                                <<"phase7", "raw">>)
      IN IF ~RecordValid(rec, ALLOWED_KINDS)
         THEN RaiseAfter("record invalid", fs, ds, artReg, infReg)
         ELSE Outcome(TRUE, "", fs, ds,
                      RegistryAppend(artReg, rec), infReg,
                      [artifact_id |-> artifact_id, kind |-> "RAW",
                       sha256 |-> sha256_file(fs, raw_path)])

ArtifactIngest(inp) ==
    /\ Cardinality({i \in 1..Len(artReg) :
                        "kind" \in DOMAIN artReg[i] /\ artReg[i].kind = "RAW"}) < MaxIngests
    /\ IF inp.artifact_id = None
       THEN \E u \in Uuids \ issued :
               /\ issued' = issued \cup {u}
               /\ Call("artifact.ingest", inp, IngestOutcome(inp, u))
       ELSE /\ issued' = issued
            /\ Call("artifact.ingest", inp, IngestOutcome(inp, inp.artifact_id))
    /\ UNCHANGED <<providerCalls, gateLog>>

----------------------------------------------------------------------------
(* artifact.sanitize *)

(* _classify: first the question test, then the assumption markers *)
Classify(stmt) ==
    IF stmt \in {"what"} THEN "QUESTION"
    ELSE IF stmt \in {"maybe"} THEN "ASSUMPTION"
    ELSE "SOURCE-BASED"

(* _to_jsonl(_split_statements(text)): one {"text","type"} object per statement *)
ToJsonl(text) ==
    [fmt |-> "jsonl",
     lines |-> [i \in 1..Len(text) |-> [type |-> Classify(text[i]), text |-> text[i]]]]

SanitizeOutcome(inp) ==
    IF ~IsNonEmptyStr(inp.created_at_utc)
    THEN Raise("tool_input.created_at_utc must be a non-empty injected string")
    ELSE LET media_type == OrDefault(inp.media_type, "application/jsonl") IN
    IF ~IsNonEmptyStr(media_type)
    THEN Raise("tool_input.media_type must be a non-empty string")
    ELSE IF ~IsNonEmptyStr(inp.raw_artifact_id)
    THEN Raise("tool_input.raw_artifact_id must be a non-empty string if provided")
    ELSE LET raw_id == inp.raw_artifact_id
             raw_path == PathOf(RAW_DIR, raw_id, ".txt") IN
    IF ~FileExists(files, raw_path)
    THEN Raise("RAW artifact not found")
    ELSE LET sanitized_id == OrDefault(inp.sanitized_artifact_id, raw_id \o "--sanitized") IN
    IF ~IsNonEmptyStr(sanitized_id)
    THEN Raise("tool_input.sanitized_artifact_id must be a non-empty string if provided")
    ELSE
      LET ds == MkdirP(dirs, SANITIZED_DIR)
          sanitized_path == PathOf(SANITIZED_DIR, sanitized_id, ".jsonl")
      IN IF FileExists(files, sanitized_path) /\ RegistryHas(artReg, sanitized_id, "SANITIZED")
         THEN Outcome(TRUE, "", files, ds, artReg, infReg,
                      [artifact_id |-> sanitized_id, kind |-> "SANITIZED",
                       sha256 |-> sha256_file(files, sanitized_path)])
         ELSE
           LET fs == WriteText(files, sanitized_path, ToJsonl(files[raw_path].text))
               rec == RecordFromFile(fs, sanitized_id, "SANITIZED", inp.created_at_utc,
                                     sanitized_path, media_type, <<raw_id>>,
                                     "artifact.sanitize", <<"phase7", "sanitized">>)
           IN IF ~RecordValid(rec, ALLOWED_KINDS)
              THEN RaiseAfter("record invalid", fs, ds, artReg, infReg)
              ELSE Outcome(TRUE, "", fs, ds,
                           RegistryAppend(artReg, rec), infReg,
                           [artifact_id |-> sanitized_id, kind |-> "SANITIZED",
                            sha256 |-> sha256_file(fs, sanitized_path)])

ArtifactSanitize(inp) ==
    /\ Call("artifact.sanitize", inp, SanitizeOutcome(inp))
    /\ UNCHANGED <<issued, providerCalls, gateLog>>

----------------------------------------------------------------------------
(* artifact.canon_select *)

(* a selection that lets every statement through *)
KeepEveryStatement(lines) == lines

RECURSIVE SelectSourceBased(_)
SelectSourceBased(lines) ==
    IF lines = <<>> THEN <<>>
    ELSE IF Head(lines).type = "SOURCE-BASED"
         THEN <<[type |-> "SOURCE-BASED", text |-> Head(lines).text]>>
                  \o SelectSourceBased(Tail(lines))
         ELSE SelectSourceBased(Tail(lines))

CanonSelectOutcome(inp) ==
    IF ~IsNonEmptyStr(inp.created_at_utc)
    THEN Raise("tool_input.created_at_utc must be a non-empty injected string")
    ELSE LET media_type == OrDefault(inp.media_type, "application/jsonl") IN
    IF ~IsNonEmptyStr(media_type)
    THEN Raise("tool_input.media_type must be a non-empty string")
    ELSE IF ~IsNonEmptyStr(inp.sanitized_artifact_id)
    THEN Raise("tool_input.sanitized_artifact_id must be a non-empty string")
    ELSE LET sanitized_id == inp.sanitized_artifact_id
             sanitized_path == PathOf(SANITIZED_DIR, sanitized_id, ".jsonl") IN
    IF ~FileExists(files, sanitized_path)
    THEN Raise("SANITIZED artifact not found")
    ELSE LET canon_id == OrDefault(inp.canon_artifact_id, sanitized_id \o "--canon") IN
    IF ~IsNonEmptyStr(canon_id)
    THEN Raise("tool_input.canon_artifact_id must be a non-empty string if provided")
    ELSE
      LET ds == MkdirP(dirs, BUNDLES_DIR)
          canon_path == PathOf(BUNDLES_DIR, canon_id, ".jsonl")
      IN IF FileExists(files, canon_path) /\ RegistryHas(artReg, canon_id, "BUNDLE_MANIFEST")
         THEN Outcome(TRUE, "", files, ds, artReg, infReg,
                      [artifact_id |-> canon_id, kind |-> "BUNDLE_MANIFEST",
                       sha256 |-> sha256_file(files, canon_path)])
         ELSE
           LET fs == WriteText(files, canon_path,
                        [fmt |-> "jsonl",
                         lines |-> SelectSourceBased(files[sanitized_path].lines)])
               rec == RecordFromFile(fs, canon_id, "BUNDLE_MANIFEST", inp.created_at_utc,
                                     canon_path, media_type, <<sanitized_id>>,
                                     "artifact.canon_select",
                                     <<"phase7", "canon", "bundle_manifest">>)
           IN IF ~RecordValid(rec, ALLOWED_KINDS)
              THEN RaiseAfter("record invalid", fs, ds, artReg, infReg)
              ELSE Outcome(TRUE, "", fs, ds,
                           RegistryAppend(artReg, rec), infReg,
                           [artifact_id |-> canon_id, kind |-> "BUNDLE_MANIFEST",
                            sha256 |-> sha256_file(fs, canon_path)])

ArtifactCanonSelect(inp) ==
    /\ Call("artifact.canon_select", inp, CanonSelectOutcome(inp))
    /\ UNCHANGED <<issued, providerCalls, gateLog>>

----------------------------------------------------------------------------
(* artifact.bundle_manifest *)

(* _load_registry_records: keyed by artifact_id, the last line wins *)
HasRecord(reg, id) == \E i \in 1..Len(reg) : reg[i].artifact_id = id

RecordById(reg, id) ==
    LET i == CHOOSE i \in 1..Len(reg) :
                 /\ reg[i].artifact_id = id
                 /\ \A j \in (i+1)..Len(reg) : reg[j].artifact_id # id
    IN reg[i]

(* _resolve_lineage: follow the first parent from the leaf; the chain is
   returned root first.  ok = FALSE stands for the ValueError raised on a
   revisited id or on an id the registry does not hold. *)
RECURSIVE LineageWalk(_, _, _, _)
LineageWalk(reg, current, seen, chain) ==
    IF current \in seen THEN [ok |-> FALSE, err |-> "cycle detected in parent_artifact_ids", chain |-> <<>>]
    ELSE IF ~HasRecord(reg, current)
    THEN [ok |-> FALSE, err |-> "artifact_id not found in registry", chain |-> <<>>]
    ELSE LET rec == RecordById(reg, current)
             parents == rec.parent_artifact_ids
         IN IF parents = <<>>
            THEN [ok |-> TRUE, err |-> "", chain |-> <<rec>> \o chain]
            ELSE LineageWalk(reg, parents[1], seen \cup {current}, <<rec>> \o chain)

ResolveLineage(reg, leaf) == LineageWalk(reg, leaf, {}, <<>>)

(* _members_from_chain: first occurrence of each artifact_id, in chain order *)
MembersFromChain(chain) ==
    LET keep == {i \in 1..Len(chain) :
                    \A j \in 1..(i-1) : chain[j].artifact_id # chain[i].artifact_id}
        F[i \in 0..Len(chain)] ==
            IF i = 0 THEN <<>>
            ELSE IF i \in keep
                 THEN Append(F[i-1], [artifact_id |-> chain[i].artifact_id,
                                      sha256 |-> chain[i].sha256,
                                      byte_size |-> chain[i].byte_size,
                                      kind |-> chain[i].kind])
                 ELSE F[i-1]
    IN F[Len(chain)]

BundlePayload(bundle_id, created_at_utc, members) ==
    [bundle_id |-> bundle_id, kind |-> "BUNDLE_MANIFEST",
     created_at_utc |-> created_at_utc, members |-> members]

BundleObject(payload) ==
    [fmt |-> "json", bundle_id |-> payload.bundle_id, kind |-> payload.kind,
     created_at_utc |-> payload.created_at_utc, members |-> payload.members,
     bundle_hash |-> Sha256(payload)]

BundleManifestOutcome(inp) ==
    IF ~IsNonEmptyStr(inp.created_at_utc)
    THEN Raise("tool_input.created_at_utc must be a non-empty injected string")
    ELSE LET media_type == OrDefault(inp.media_type, "application/json") IN
    IF ~IsNonEmptyStr(media_type)
    THEN Raise("tool_input.media_type must be a non-empty string")
    ELSE IF ~IsNonEmptyStr(inp.canon_artifact_id)
    THEN Raise("tool_input.canon_artifact_id must be a non-empty string")
    ELSE LET canon_id == inp.canon_artifact_id
             bundle_id == OrDefault(inp.bundle_artifact_id, canon_id \o "--bundle") IN
    IF ~IsNonEmptyStr(bundle_id)
    THEN Raise("tool_input.bundle_artifact_id must be a non-empty string if provided")
    ELSE
      LET ds == MkdirP(dirs, BUNDLES_DIR)
          bundle_path == PathOf(BUNDLES_DIR, bundle_id, ".json")
      IN IF FileExists(files, bundle_path) /\ RegistryHas(artReg, bundle_id, "BUNDLE_MANIFEST")
         THEN Outcome(TRUE, "", files, ds, artReg, infReg,
                      [artifact_id |-> bundle_id, kind |-> "BUNDLE_MANIFEST",
                       sha256 |-> sha256_file(files, bundle_path)])
         ELSE
           LET lin == ResolveLineage(artReg, canon_id) IN
           IF ~lin.ok THEN RaiseAfter(lin.err, files, ds, artReg, infReg)
           ELSE
           LET members == MembersFromChain(lin.chain)
               obj == BundleObject(BundlePayload(bundle_id, inp.created_at_utc, members))
               fs == WriteText(files, bundle_path, obj)
               rec == RecordFromFile(fs, bundle_id, "BUNDLE_MANIFEST", inp.created_at_utc,
                                     bundle_path, media_type, <<canon_id>>,
                                     "artifact.bundle_manifest",
                                     <<"phase7", "bundle_manifest", "manifest_object">>)
           IN IF ~RecordValid(rec, ALLOWED_KINDS)
              THEN RaiseAfter("record invalid", fs, ds, artReg, infReg)
              ELSE Outcome(TRUE, "", fs, ds, RegistryAppend(artReg, rec), infReg,
                           [artifact_id |-> bundle_id, kind |-> "BUNDLE_MANIFEST",
                            sha256 |-> sha256_file(fs, bundle_path)])

ArtifactBundleManifest(inp) ==
    /\ Call("artifact.bundle_manifest", inp, BundleManifestOutcome(inp))
    /\ UNCHANGED <<issued, providerCalls, gateLog>>

----------------------------------------------------------------------------
(* artifact.build_spec *)

PROMPT_TEMPLATE_ID == "PHASE7_STEP8_BUILD_SPEC_V1"

BuildSpecObject(spec_id, created_at_utc, bundle_id, bundle_obj, provider, model, temperature, max_tokens, inferred_notes) ==
    LET prompt_payload ==
            [template |-> PROMPT_TEMPLATE_ID,
             bundle_manifest |-> [bundle_id |-> bundle_obj.bundle_id,
                                  bundle_hash |-> bundle_obj.bundle_hash,
                                  members |-> bundle_obj.members],
             inference_settings |-> [provider |-> provider, model |-> model,
                                     temperature |-> temperature,
                                     max_tokens |-> max_tokens]]
    IN [fmt |-> "json", artifact_id |-> spec_id, kind |-> "BUILD_SPEC",
        created_at_utc |-> created_at_utc,
        bundle |-> [bundle_artifact_id |-> bundle_id,
                    bundle_hash |-> bundle_obj.bundle_hash],
        audit |-> [provider |-> provider, model |-> model,
                   temperature |-> temperature, max_tokens |-> max_tokens,
                   prompt_hash |-> Sha256(prompt_payload)],
        spec |-> [INFERRED |-> OrDefault(inferred_notes, ""),
                  OPEN_QUESTIONS |-> <<>>,
                  SOURCE_MAP |-> bundle_obj.members]]

BuildSpecOutcome(inp) ==
    IF ~IsNonEmptyStr(inp.created_at_utc)
    THEN Raise("tool_input.created_at_utc must be a non-empty injected string")
    ELSE LET media_type == OrDefault(inp.media_type, "application/json") IN
    IF ~IsNonEmptyStr(media_type)
    THEN Raise("tool_input.media_type must be a non-empty string")
    ELSE IF ~IsNonEmptyStr(inp.bundle_artifact_id)
    THEN Raise("tool_input.bundle_artifact_id must be a non-empty string")
    ELSE IF ~IsNonEmptyStr(inp.provider)
    THEN Raise("tool_input.provider must be a non-empty string")
    ELSE IF ~IsNonEmptyStr(inp.model)
    THEN Raise("tool_input.model must be a non-empty string")
    ELSE IF inp.max_tokens < 0
    THEN Raise("max_tokens must be >= 0")
    ELSE LET bundle_id == inp.bundle_artifact_id
             spec_id == OrDefault(inp.spec_artifact_id, bundle_id \o "--build_spec") IN
    IF ~IsNonEmptyStr(spec_id)
    THEN Raise("tool_input.spec_artifact_id must be a non-empty string if provided")
    ELSE
      LET ds == MkdirP(dirs, SPECS_DIR)
          spec_path == PathOf(SPECS_DIR, spec_id, ".json")
          bundle_path == PathOf(BUNDLES_DIR, bundle_id, ".json")
      IN IF FileExists(files, spec_path) /\ RegistryHas(artReg, spec_id, "BUILD_SPEC")
         THEN Outcome(TRUE, "", files, ds, artReg, infReg,
                      [artifact_id |-> spec_id, kind |-> "BUILD_SPEC",
                       sha256 |-> sha256_file(files, spec_path)])
         ELSE IF ~FileExists(files, bundle_path)
         THEN RaiseAfter("bundle manifest file not found", files, ds, artReg, infReg)
         ELSE IF files[bundle_path].kind # "BUNDLE_MANIFEST"
         THEN RaiseAfter("bundle manifest kind must be BUNDLE_MANIFEST", files, ds, artReg, infReg)
         ELSE
           LET obj == BuildSpecObject(spec_id, inp.created_at_utc, bundle_id,
                                      files[bundle_path], inp.provider, inp.model,
                                      inp.temperature, inp.max_tokens, inp.inferred_notes)
               fs == WriteText(files, spec_path, obj)
               rec == RecordFromFile(fs, spec_id, "BUILD_SPEC", inp.created_at_utc,
                                     spec_path, media_type, <<bundle_id>>,
                                     "artifact.build_spec", <<"phase7", "build_spec">>)
           IN IF ~RecordValid(rec, ALLOWED_KINDS)
              THEN RaiseAfter("record invalid", fs, ds, artReg, infReg)
              ELSE Outcome(TRUE, "", fs, ds, RegistryAppend(artReg, rec), infReg,
                           [artifact_id |-> spec_id, kind |-> "BUILD_SPEC",
                            sha256 |-> sha256_file(fs, spec_path)])

ArtifactBuildSpec(inp) ==
    /\ Call("artifact.build_spec", inp, BuildSpecOutcome(inp))
    /\ UNCHANGED <<issued, providerCalls, gateLog>>

----------------------------------------------------------------------------
(* artifact.work_order_emit *)

WorkOrderPayload(work_order_id, created_at_utc, spec_id, fs, spec_path) ==
    LET spec_obj == fs[spec_path] IN
    [artifact_id |-> work_order_id, kind |-> "WORK_ORDER",
     created_at_utc |-> created_at_utc,
     lineage |-> [build_spec_artifact_id |-> spec_id,
                  build_spec_sha256 |-> sha256_file(fs, spec_path),
                  bundle_hash |-> spec_obj.bundle.bundle_hash,
                  prompt_hash |-> spec_obj.audit.prompt_hash],
     execution_intent |-> spec_obj.spec,
     constraints |-> [no_execution |-> TRUE, declarative_only |-> TRUE,
                      proxy_required |-> TRUE],
     scope_boundaries |-> [filesystem_writes |-> "artifact_root_only",
                           no_runtime_resolution |-> TRUE],
     open_questions |-> spec_obj.spec.OPEN_QUESTIONS,
     notes |-> "artifact.work_order_emit",
     tags |-> <<"phase7", "work_order", "declarative">>]

(* a work order whose hash is taken before the lineage block is filled in *)
WorkOrderHashedEarly(payload) ==
    [fmt |-> "json", artifact_id |-> payload.artifact_id, kind |-> payload.kind,
     created_at_utc |-> payload.created_at_utc, lineage |-> payload.lineage,
     execution_intent |-> payload.execution_intent,
     constraints |-> payload.constraints,
     scope_boundaries |-> payload.scope_boundaries,
     open_questions |-> payload.open_questions,
     notes |-> payload.notes, tags |-> payload.tags,
     work_order_hash |-> Sha256([payload EXCEPT !.lineage = <<>>])]

WorkOrderObject(payload) ==
    [fmt |-> "json", artifact_id |-> payload.artifact_id, kind |-> payload.kind,
     created_at_utc |-> payload.created_at_utc, lineage |-> payload.lineage,
     execution_intent |-> payload.execution_intent,
     constraints |-> payload.constraints,
     scope_boundaries |-> payload.scope_boundaries,
     open_questions |-> payload.open_questions,
     notes |-> payload.notes, tags |-> payload.tags,
     work_order_hash |-> Sha256(payload)]

WorkOrderEmitOutcome(inp) ==
    IF ~IsNonEmptyStr(inp.created_at_utc)
    THEN Raise("tool_input.created_at_utc must be injected")
    ELSE IF ~IsNonEmptyStr(inp.build_spec_artifact_id)
    THEN Raise("tool_input.build_spec_artifact_id required")
    ELSE LET spec_id == inp.build_spec_artifact_id
             media_type == OrDefault(inp.media_type, "application/json")
             spec_path == PathOf(SPECS_DIR, spec_id, ".json") IN
    IF ~FileExists(files, spec_path)
    THEN Raise("BUILD_SPEC not found")
    ELSE LET work_order_id == OrDefault(inp.work_order_artifact_id, spec_id \o "--work_order") IN
    IF ~IsNonEmptyStr(work_order_id)
    THEN Raise("work_order_artifact_id invalid")
    ELSE
      LET ds == MkdirP(dirs, WORK_ORDERS_DIR)
          work_order_path == PathOf(WORK_ORDERS_DIR, work_order_id, ".json")
      IN IF FileExists(files, work_order_path) /\ RegistryHas(artReg, work_order_id, "WORK_ORDER")
         THEN Outcome(TRUE, "", files, ds, artReg, infReg,
                      [artifact_id |-> work_order_id, kind |-> "WORK_ORDER",
                       sha256 |-> sha256_file(files, work_order_path)])
         ELSE
           LET obj == WorkOrderObject(WorkOrderPayload(work_order_id, inp.created_at_utc,
                                                       spec_id, files, spec_path))
               fs == WriteText(files, work_order_path, obj)
               rec == RecordFromFile(fs, work_order_id, "WORK_ORDER", inp.created_at_utc,
                                     work_order_path, media_type, <<spec_id>>,
                                     "artifact.work_order_emit", <<"phase7", "work_order">>)
           IN IF ~RecordValid(rec, ALLOWED_KINDS)
              THEN RaiseAfter("media_type must be a non-empty string", fs, ds, artReg, infReg)
              ELSE Outcome(TRUE, "", fs, ds, RegistryAppend(artReg, rec), infReg,
                           [artifact_id |-> work_order_id, kind |-> "WORK_ORDER",
                            sha256 |-> sha256_file(fs, work_order_path)])

ArtifactWorkOrderEmit(inp) ==
    /\ Call("artifact.work_order_emit", inp, WorkOrderEmitOutcome(inp))
    /\ UNCHANGED <<issued, providerCalls, gateLog>>

----------------------------------------------------------------------------
(* artifact.snapshot_export *)

Salts == {"salt-1", "salt-2"}

SnapshotDir(snapshot_id) == SNAPSHOTS_DIR \o "/" \o snapshot_id

(* _build_plain_tar over the default included roots: every file under the
   artifact root, the registry file among them, sorted by archive name with
   normalised metadata *)
PlainTar(fs, areg) ==
    [fmt |-> "tar",
     members |-> [p \in {q \in DOMAIN fs : UnderArtifactRoot(q)} |-> fs[p]],
     registry |-> areg]

(* openssl enc -aes-256-cbc -pbkdf2 -salt *)
Encrypt(tar, passphrase, salt) ==
    [fmt |-> "enc", plain |-> tar, passphrase |-> passphrase, salt |-> salt]

SnapshotManifestObject(snapshot_id, created_at_utc, tar, fs, enc_path, work_order_id, work_order_path, encryption_scheme) ==
    [fmt |-> "json", snapshot_id |-> snapshot_id, kind |-> "SNAPSHOT_MANIFEST",
     created_at_utc |-> created_at_utc,
     file_count |-> Cardinality(DOMAIN tar.members) +
                    (IF tar.registry = <<>> THEN 0 ELSE 1),
     archive_plain_sha256 |-> Sha256(tar),
     archive_enc_sha256 |-> sha256_file(fs, enc_path),
     encryption_scheme |-> encryption_scheme,
     parents |-> [work_order_artifact_id |-> work_order_id,
                  work_order_sha256 |-> sha256_file(fs, work_order_path),
                  work_order_hash |-> fs[work_order_path].work_order_hash,
                  build_spec_artifact_id |->
                      fs[work_order_path].lineage.build_spec_artifact_id]]

(* the step of the try block at which the environment makes the export fail *)
SnapshotFaults == {"none", "tar", "openssl", "manifest"}

(* fault and salt are the environment's part of the call *)
SnapshotExportOutcome(inp, fault, salt) ==
    IF ~IsNonEmptyStr(inp.created_at_utc)
    THEN Raise("tool_input.created_at_utc must be a non-empty injected string")
    ELSE IF ~IsNonEmptyStr(inp.work_order_artifact_id)
    THEN Raise("tool_input.work_order_artifact_id must be a non-empty string")
    ELSE IF ~IsNonEmptyStr(inp.encryption_passphrase)
    THEN Raise("tool_input.encryption_passphrase must be a non-empty string")
    ELSE LET work_order_id == inp.work_order_artifact_id
             snapshot_id == IF inp.snapshot_id = None
                            THEN work_order_id \o "--snapshot" ELSE inp.snapshot_id IN
    IF ~IsNonEmptyStr(snapshot_id)
    THEN Raise("tool_input.snapshot_id must be a non-empty string if provided")
    ELSE LET media_type_archive == OrDefault(inp.media_type_archive, "application/octet-stream")
             media_type_manifest == "application/json"
             encryption_scheme == "openssl-enc-aes-256-cbc-pbkdf2-salt" IN
    IF ~IsNonEmptyStr(media_type_archive)
    THEN Raise("media_type_archive must be a non-empty string")
    ELSE LET work_order_path == PathOf(WORK_ORDERS_DIR, work_order_id, ".json") IN
    IF ~FileExists(files, work_order_path)
    THEN Raise("WORK_ORDER not found")
    ELSE
      LET ds0 == MkdirP(dirs, SNAPSHOTS_DIR)
          snapshot_dir == SnapshotDir(snapshot_id)
          enc_path == PathOf(snapshot_dir, "snapshot", ".enc")
          manifest_path == PathOf(snapshot_dir, "snapshot_manifest", ".json")
          plain_tar_path == PathOf(snapshot_dir, "snapshot.tar", ".tmp")
      IN
      IF snapshot_dir \in dirs
      THEN IF /\ FileExists(files, enc_path)
              /\ FileExists(files, manifest_path)
              /\ RegistryHas(artReg, snapshot_id, "SNAPSHOT_ARCHIVE")
           THEN Outcome(TRUE, "", files, ds0, artReg, infReg,
                        [artifact_id |-> snapshot_id, kind |-> "SNAPSHOT_ARCHIVE",
                         sha256 |-> sha256_file(files, enc_path)])
           ELSE RaiseAfter("snapshot directory already exists without valid registry-backed idempotency",
                           files, ds0, artReg, infReg)
      ELSE
        LET ds == ds0 \cup {snapshot_dir}
            tar == PlainTar(files, artReg)
            fsTar == WriteText(files, plain_tar_path, tar)
        IN
        IF fault = "tar"
        THEN \* _build_plain_tar raises with the tar partly written; finally unlinks it
             RaiseAfter("tar build failed", Unlink(fsTar, plain_tar_path), ds, artReg, infReg)
        ELSE IF fault = "openssl"
        THEN \* RuntimeError from the encryption; the finally block unlinks the tar
             RaiseAfter("openssl enc failed", Unlink(fsTar, plain_tar_path), ds, artReg, infReg)
        ELSE
          LET fsEnc == WriteText(fsTar, enc_path, Encrypt(tar, inp.encryption_passphrase, salt))
              fsNoTar == Unlink(fsEnc, plain_tar_path)
              manifest == SnapshotManifestObject(snapshot_id, inp.created_at_utc, tar,
                                                 fsNoTar, enc_path, work_order_id,
                                                 work_order_path, encryption_scheme)
              fs == WriteText(fsNoTar, manifest_path, manifest)
              recA == RecordFromFile(fs, snapshot_id, "SNAPSHOT_ARCHIVE", inp.created_at_utc,
                                     enc_path, media_type_archive, <<work_order_id>>,
                                     "artifact.snapshot_export",
                                     <<"phase7", "snapshot_archive">>)
              recM == RecordFromFile(fs, snapshot_id \o "--manifest", "SNAPSHOT_MANIFEST",
                                     inp.created_at_utc, manifest_path, media_type_manifest,
                                     <<work_order_id>>, "artifact.snapshot_export",
                                     <<"phase7", "snapshot_manifest">>)
          IN IF fault = "manifest"
             THEN RaiseAfter("manifest write failed", fsNoTar, ds, artReg, infReg)
             ELSE IF ~RecordValid(recA, ALLOWED_KINDS)
             THEN RaiseAfter("record invalid", fs, ds, artReg, infReg)
             ELSE LET reg1 == RegistryAppend(artReg, recA) IN
                  IF ~RecordValid(recM, ALLOWED_KINDS)
                  THEN RaiseAfter("kind must be one of ALLOWED_KINDS", fs, ds, reg1, infReg)
                  ELSE Outcome(TRUE, "", fs, ds, RegistryAppend(reg1, recM), infReg,
                               [artifact_id |-> snapshot_id, kind |-> "SNAPSHOT_ARCHIVE",
                                sha256 |-> sha256_file(fs, enc_path)])

ArtifactSnapshotExport(inp, faults) ==
    /\ \E fault \in faults, salt \in Salts :
           Call("artifact.snapshot_export", inp, SnapshotExportOutcome(inp, fault, salt))
    /\ UNCHANGED <<issued, providerCalls, gateLog>>

----------------------------------------------------------------------------
(* Policy gate and the inference.request contract *)

OPENAI_ALLOWED_MODELS == {"gpt-4o", "gpt-4.1", "gpt-4.1-mini"}
ANTHROPIC_ALLOWED_MODELS == {"claude-3-opus", "claude-3-sonnet", "claude-3-haiku"}

(* Numbers a caller passes are [num, v]: num = FALSE is a value of another
   type; a temperature v is in tenths (10 is 1.0) *)
Num(v) == [num |-> TRUE, v |-> v]
NotNum == [num |-> FALSE, v |-> 0]
TEMPERATURE_MIN == 0
TEMPERATURE_MAX == 10

(* Two gates that are not the code's: one that accepts everything, one that
   skips the allowlists *)
PolicyGateAcceptAll(provider, model, temperature, max_tokens, provider_max_tokens_cap) == ""

PolicyGateNoAllowlist(provider, model, temperature, max_tokens, provider_max_tokens_cap) ==
    IF temperature < TEMPERATURE_MIN \/ temperature > TEMPERATURE_MAX
    THEN "policy_reject: temperature out of bounds [0.0, 1.0]"
    ELSE IF max_tokens > provider_max_tokens_cap
    THEN "policy_reject: max_tokens exceeds provider hard cap"
    ELSE ""

(* enforce_policy_gate: the message of the ValueError raised, "" when none *)

EnforcePolicyGate(provider, model, temperature, max_tokens, provider_max_tokens_cap) ==
    IF provider \notin {"openai", "anthropic"}
    THEN "policy_reject: provider must be 'openai' or 'anthropic'"
    ELSE IF model \notin (IF provider = "openai" THEN OPENAI_ALLOWED_MODELS
                          ELSE ANTHROPIC_ALLOWED_MODELS)
    THEN "policy_reject: model not allowlisted by SPEC-008D"
    ELSE IF temperature < TEMPERATURE_MIN \/ temperature > TEMPERATURE_MAX
    THEN "policy_reject: temperature out of bounds [0.0, 1.0]"
    ELSE IF max_tokens <= 0
    THEN "policy_reject: max_tokens must be a positive int"
    ELSE IF provider_max_tokens_cap <= 0
    THEN "policy_reject: provider_max_tokens_cap must be injected (positive int)"
    ELSE IF max_tokens > provider_max_tokens_cap
    THEN "policy_reject: max_tokens exceeds provider hard cap"
    ELSE ""

(* build_inference_request up to the gate: the message raised, "" when none *)
RequestInputError(inp) ==
    IF ~IsNonEmptyStr(inp.created_at_utc) THEN "tool_input.created_at_utc must be injected"
    ELSE IF ~(inp.snapshot_hash.len64 /\ inp.snapshot_hash.hex)
    THEN "tool_input.snapshot_hash must be a 64-hex string"
    ELSE IF ~IsNonEmptyStr(inp.provider) THEN "tool_input.provider must be a non-empty string"
    ELSE IF ~IsNonEmptyStr(inp.model) THEN "tool_input.model must be a non-empty string (no aliases)"
    ELSE IF inp.system_prompt \in {None, BadType}
    THEN "tool_input.system_prompt must be a string (can be empty)"
    ELSE IF ~IsNonEmptyStr(inp.user_prompt) THEN "tool_input.user_prompt must be a non-empty string"
    ELSE IF ~inp.temperature.num THEN "tool_input.temperature must be a number"
    ELSE IF ~inp.max_tokens.num \/ inp.max_tokens.v <= 0
    THEN "tool_input.max_tokens must be a positive int"
    ELSE IF ~inp.provider_max_tokens_cap.num \/ inp.provider_max_tokens_cap.v <= 0
    THEN "tool_input.provider_max_tokens_cap must be injected (positive int)"
    ELSE IF inp.request_id # None /\ ~IsNonEmptyStr(inp.request_id)
    THEN "tool_input.request_id must be a non-empty string if provided"
    ELSE ""

RequestPayload(inp) ==
    [kind |-> "inference.request", created_at_utc |-> inp.created_at_utc,
     snapshot_hash |-> inp.snapshot_hash, provider |-> inp.provider,
     model |-> inp.model,
     params |-> [temperature |-> inp.temperature.v, max_tokens |-> inp.max_tokens.v],
     prompts |-> [system_prompt |-> inp.system_prompt, user_prompt |-> inp.user_prompt]]

(* build_inference_request: [err, req]; req carries request_hash and request_id *)
BuildInferenceRequest(inp) ==
    LET e1 == RequestInputError(inp) IN
    IF e1 # "" THEN [err |-> e1, req |-> NoOut]
    ELSE
      LET e2 == EnforcePolicyGate(inp.provider, inp.model, inp.temperature.v,
                                  inp.max_tokens.v, inp.provider_max_tokens_cap.v)
      IN IF e2 # "" THEN [err |-> e2, req |-> NoOut]
         ELSE LET body == RequestPayload(inp)
                  request_hash == Sha256(body)
              IN [err |-> "",
                  req |-> [fmt |-> "json", kind |-> body.kind,
                           created_at_utc |-> body.created_at_utc,
                           snapshot_hash |-> body.snapshot_hash,
                           provider |-> body.provider, model |-> body.model,
                           params |-> body.params, prompts |-> body.prompts,
                           request_hash |-> request_hash,
                           request_id |-> IF inp.request_id = None
                                          THEN HexDigest(request_hash)
                                          ELSE inp.request_id]]

----------------------------------------------------------------------------
(* inference.request_emit *)

RequestEmitOutcome(inp) ==
    LET b == BuildInferenceRequest(inp) IN
    IF b.err # "" THEN Raise(b.err)
    ELSE LET req == b.req
             request_id == req.request_id
             media_type == OrDefault(inp.media_type, "application/json") IN
    IF ~IsNonEmptyStr(media_type)
    THEN Raise("media_type must be a non-empty string")
    ELSE
      LET ds == MkdirP(dirs, REQUESTS_DIR)
          request_path == PathOf(REQUESTS_DIR, request_id, ".json")
      IN IF FileExists(files, request_path) /\ RegistryHas(infReg, request_id, "INFERENCE_REQUEST")
         THEN Outcome(TRUE, "", files, ds, artReg, infReg,
                      [artifact_id |-> request_id, kind |-> "INFERENCE_REQUEST",
                       sha256 |-> sha256_file(files, request_path),
                       request_hash |-> req.request_hash])
         ELSE
           LET fs == WriteText(files, request_path, req)
               rec == RecordFromFile(fs, request_id, "INFERENCE_REQUEST", req.created_at_utc,
                                     request_path, media_type, <<>>,
                                     "inference.request_emit",
                                     <<"phase8", "inference", "request">>)
           IN IF ~RecordValid(rec, INFERENCE_ALLOWED_KINDS)
              THEN RaiseAfter("record invalid", fs, ds, artReg, infReg)
              ELSE Outcome(TRUE, "", fs, ds, artReg, RegistryAppend(infReg, rec),
                           [artifact_id |-> request_id, kind |-> "INFERENCE_REQUEST",
                            sha256 |-> sha256_file(fs, request_path),
                            request_hash |-> req.request_hash])

InferenceRequestEmit(inp) ==
    /\ Call("inference.request_emit", inp, RequestEmitOutcome(inp))
    /\ gateLog' = IF BuildInferenceRequest(inp).err = ""
                  THEN gateLog \cup {[provider |-> inp.provider, model |-> inp.model,
                                      temperature |-> inp.temperature.v,
                                      max_tokens |-> inp.max_tokens.v,
                                      provider_max_tokens_cap |-> inp.provider_max_tokens_cap.v]}
                  ELSE gateLog
    /\ UNCHANGED <<issued, providerCalls>>

----------------------------------------------------------------------------
(* inference.response_emit, inference.error_emit, inference.receipt_emit.
   Each is written over an explicit store (fs0, ds0, ireg0) because
   inference.execute calls them in sequence inside one step. *)

(* len(h) = 64 is all response_emit and error_emit ask of a hash *)
IsLen64(h) == h.len64
(* _is_hex64 of receipt_emit *)
IsHex64(h) == h.len64 /\ h.hex

RaiseOn(err, fs0, ds0, ireg0) == Outcome(FALSE, err, fs0, ds0, artReg, ireg0, NoOut)

ResponseEmitOn(fs0, ds0, ireg0, inp) ==
    IF ~IsNonEmptyStr(inp.created_at_utc)
    THEN RaiseOn("tool_input.created_at_utc must be injected", fs0, ds0, ireg0)
    ELSE IF ~IsNonEmptyStr(inp.request_id)
    THEN RaiseOn("tool_input.request_id must be a non-empty string", fs0, ds0, ireg0)
    ELSE IF ~IsLen64(inp.request_hash)
    THEN RaiseOn("tool_input.request_hash must be a 64-hex string", fs0, ds0, ireg0)
    ELSE IF ~IsLen64(inp.snapshot_hash)
    THEN RaiseOn("tool_input.snapshot_hash must be a 64-hex string", fs0, ds0, ireg0)
    ELSE IF ~IsNonEmptyStr(inp.provider)
    THEN RaiseOn("tool_input.provider must be a non-empty string", fs0, ds0, ireg0)
    ELSE IF ~IsNonEmptyStr(inp.model)
    THEN RaiseOn("tool_input.model must be a non-empty string", fs0, ds0, ireg0)
    ELSE IF inp.output_text \in {None, BadType}
    THEN RaiseOn("tool_input.output_text must be a string", fs0, ds0, ireg0)
    ELSE
      LET response_id == OrDefault(inp.response_id, inp.request_id \o "--response")
          media_type == OrDefault(inp.media_type, "application/json") IN
      IF ~IsNonEmptyStr(response_id) THEN RaiseOn("tool_input.response_id invalid", fs0, ds0, ireg0)
      ELSE IF ~IsNonEmptyStr(media_type)
      THEN RaiseOn("media_type must be a non-empty string", fs0, ds0, ireg0)
      ELSE
        LET ds == MkdirP(ds0, RESPONSES_DIR)
            response_path == PathOf(RESPONSES_DIR, response_id, ".json")
        IN IF FileExists(fs0, response_path) /\ RegistryHas(ireg0, response_id, "INFERENCE_RESPONSE")
           THEN Outcome(TRUE, "", fs0, ds, artReg, ireg0,
                        [artifact_id |-> response_id, kind |-> "INFERENCE_RESPONSE",
                         sha256 |-> sha256_file(fs0, response_path)])
           ELSE
             LET obj == [fmt |-> "json", kind |-> "inference.response",
                         created_at_utc |-> inp.created_at_utc,
                         request_id |-> inp.request_id,
                         request_hash |-> inp.request_hash,
                         snapshot_hash |-> inp.snapshot_hash,
                         provider |-> inp.provider, model |-> inp.model,
                         output_text |-> inp.output_text]
                 fs == WriteText(fs0, response_path, obj)
                 rec == RecordFromFile(fs, response_id, "INFERENCE_RESPONSE",
                                       inp.created_at_utc, response_path, media_type,
                                       <<inp.request_id>>, "inference.response_emit",
                                       <<"phase8", "inference", "response">>)
             IN IF ~RecordValid(rec, INFERENCE_ALLOWED_KINDS)
                THEN RaiseOn("record invalid", fs, ds, ireg0)
                ELSE Outcome(TRUE, "", fs, ds, artReg, RegistryAppend(ireg0, rec),
                             [artifact_id |-> response_id, kind |-> "INFERENCE_RESPONSE",
                              sha256 |-> sha256_file(fs, response_path)])

InferenceResponseEmit(inp) ==
    /\ Call("inference.response_emit", inp, ResponseEmitOn(files, dirs, infReg, inp))
    /\ UNCHANGED <<issued, providerCalls, gateLog>>

ErrorEmitOn(fs0, ds0, ireg0, inp) ==
    IF ~IsNonEmptyStr(inp.created_at_utc)
    THEN RaiseOn("tool_input.created_at_utc must be injected", fs0, ds0, ireg0)
    ELSE IF ~IsNonEmptyStr(inp.request_id)
    THEN RaiseOn("tool_input.request_id must be a non-empty string", fs0, ds0, ireg0)
    ELSE IF ~IsLen64(inp.request_hash)
    THEN RaiseOn("tool_input.request_hash must be a 64-hex string", fs0, ds0, ireg0)
    ELSE IF ~IsLen64(inp.snapshot_hash)
    THEN RaiseOn("tool_input.snapshot_hash must be a 64-hex string", fs0, ds0, ireg0)
    ELSE IF ~IsNonEmptyStr(inp.provider)
    THEN RaiseOn("tool_input.provider must be a non-empty string", fs0, ds0, ireg0)
    ELSE IF ~IsNonEmptyStr(inp.model)
    THEN RaiseOn("tool_input.model must be a non-empty string", fs0, ds0, ireg0)
    ELSE IF ~IsNonEmptyStr(inp.error_type)
    THEN RaiseOn("tool_input.error_type must be a non-empty string", fs0, ds0, ireg0)
    ELSE IF ~IsNonEmptyStr(inp.message)
    THEN RaiseOn("tool_input.message must be a non-empty string", fs0, ds0, ireg0)
    ELSE IF inp.details = BadType
    THEN RaiseOn("tool_input.details must be a string if provided", fs0, ds0, ireg0)
    ELSE
      LET error_id == OrDefault(inp.error_id, inp.request_id \o "--error")
          media_type == OrDefault(inp.media_type, "application/json") IN
      IF ~IsNonEmptyStr(error_id) THEN RaiseOn("tool_input.error_id invalid", fs0, ds0, ireg0)
      ELSE IF ~IsNonEmptyStr(media_type)
      THEN RaiseOn("media_type must be a non-empty string", fs0, ds0, ireg0)
      ELSE
        LET ds == MkdirP(ds0, ERRORS_DIR)
            error_path == PathOf(ERRORS_DIR, error_id, ".json")
        IN IF FileExists(fs0, error_path) /\ RegistryHas(ireg0, error_id, "INFERENCE_ERROR")
           THEN Outcome(TRUE, "", fs0, ds, artReg, ireg0,
                        [artifact_id |-> error_id, kind |-> "INFERENCE_ERROR",
                         sha256 |-> sha256_file(fs0, error_path)])
           ELSE
             LET obj == [fmt |-> "json", kind |-> "inference.error",
                         created_at_utc |-> inp.created_at_utc,
                         request_id |-> inp.request_id,
                         request_hash |-> inp.request_hash,
                         snapshot_hash |-> inp.snapshot_hash,
                         provider |-> inp.provider, model |-> inp.model,
                         error_type |-> inp.error_type, message |-> inp.message,
                         details |-> inp.details]
                 fs == WriteText(fs0, error_path, obj)
                 rec == RecordFromFile(fs, error_id, "INFERENCE_ERROR",
                                       inp.created_at_utc, error_path, media_type,
                                       <<inp.request_id>>, "inference.error_emit",
                                       <<"phase8", "inference", "error">>)
             IN IF ~RecordValid(rec, INFERENCE_ALLOWED_KINDS)
                THEN RaiseOn("record invalid", fs, ds, ireg0)
                ELSE Outcome(TRUE, "", fs, ds, artReg, RegistryAppend(ireg0, rec),
                             [artifact_id |-> error_id, kind |-> "INFERENCE_ERROR",
                              sha256 |-> sha256_file(fs, error_path)])

InferenceErrorEmit(inp) ==
    /\ Call("inference.error_emit", inp, ErrorEmitOn(files, dirs, infReg, inp))
    /\ UNCHANGED <<issued, providerCalls, gateLog>>

ReceiptBase(created_at_utc, request_id, request_hash, snapshot_hash, provider, model, result_kind, result_id, request_sha256, result_sha256) ==
    [kind |-> "inference.receipt", created_at_utc |-> created_at_utc,
     request_id |-> request_id, request_hash |-> request_hash,
     snapshot_hash |-> snapshot_hash, provider |-> provider, model |-> model,
     result |-> [kind |-> result_kind, artifact_id |-> result_id],
     inputs_sha256 |-> [request_sha256 |-> request_sha256,
                        result_sha256 |-> result_sha256]]

ReceiptObject(base, receipt_hash) ==
    [fmt |-> "json", kind |-> base.kind, created_at_utc |-> base.created_at_utc,
     request_id |-> base.request_id, request_hash |-> base.request_hash,
     snapshot_hash |-> base.snapshot_hash, provider |-> base.provider,
     model |-> base.model, result |-> base.result,
     inputs_sha256 |-> base.inputs_sha256, receipt_hash |-> receipt_hash]

(* a gate that only asks for some result id *)
SomeResultGiven(response_id, error_id) == response_id # None \/ error_id # None

(* bool(response_id) == bool(error_id) is the reject: exactly one must be given *)
ExactlyOneResult(response_id, error_id) == (response_id # None) # (error_id # None)

ReceiptEmitOn(fs0, ds0, ireg0, inp) ==
    IF ~IsNonEmptyStr(inp.created_at_utc)
    THEN RaiseOn("tool_input.created_at_utc must be injected", fs0, ds0, ireg0)
    ELSE IF ~IsNonEmptyStr(inp.request_id)
    THEN RaiseOn("tool_input.request_id must be a non-empty string", fs0, ds0, ireg0)
    ELSE IF ~IsHex64(inp.request_hash)
    THEN RaiseOn("tool_input.request_hash must be a 64-hex string", fs0, ds0, ireg0)
    ELSE IF ~IsHex64(inp.snapshot_hash)
    THEN RaiseOn("tool_input.snapshot_hash must be a 64-hex string", fs0, ds0, ireg0)
    ELSE IF ~IsNonEmptyStr(inp.provider)
    THEN RaiseOn("tool_input.provider must be a non-empty string", fs0, ds0, ireg0)
    ELSE IF ~IsNonEmptyStr(inp.model)
    THEN RaiseOn("tool_input.model must be a non-empty string", fs0, ds0, ireg0)
    ELSE IF inp.response_id # None /\ ~IsNonEmptyStr(inp.response_id)
    THEN RaiseOn("tool_input.response_id invalid if provided", fs0, ds0, ireg0)
    ELSE IF inp.error_id # None /\ ~IsNonEmptyStr(inp.error_id)
    THEN RaiseOn("tool_input.error_id invalid if provided", fs0, ds0, ireg0)
    ELSE IF ~ExactlyOneResult(inp.response_id, inp.error_id)
    THEN RaiseOn("receipt_emit: exactly one of response_id or error_id must be provided",
                 fs0, ds0, ireg0)
    ELSE
      LET receipt_id == OrDefault(inp.receipt_id, inp.request_id \o "--receipt")
          media_type == OrDefault(inp.media_type, "application/json")
          request_path == PathOf(REQUESTS_DIR, inp.request_id, ".json")
          result_kind == IF inp.response_id # None THEN "response" ELSE "error"
          result_id == IF inp.response_id # None THEN inp.response_id ELSE inp.error_id
          result_path == PathOf(IF inp.response_id # None THEN RESPONSES_DIR ELSE ERRORS_DIR,
                                result_id, ".json")
      IN
      IF ~IsNonEmptyStr(receipt_id) THEN RaiseOn("tool_input.receipt_id invalid", fs0, ds0, ireg0)
      ELSE IF ~IsNonEmptyStr(media_type)
      THEN RaiseOn("media_type must be a non-empty string", fs0, ds0, ireg0)
      ELSE IF ~FileExists(fs0, request_path)
      THEN RaiseOn("receipt_emit: missing request artifact file", fs0, ds0, ireg0)
      ELSE IF ~FileExists(fs0, result_path)
      THEN RaiseOn("receipt_emit: missing " \o result_kind \o " artifact file", fs0, ds0, ireg0)
      ELSE
        LET ds == MkdirP(ds0, RECEIPTS_DIR)
            receipt_path == PathOf(RECEIPTS_DIR, receipt_id, ".json")
        IN IF FileExists(fs0, receipt_path) /\ RegistryHas(ireg0, receipt_id, "INFERENCE_RECEIPT")
           THEN Outcome(TRUE, "", fs0, ds, artReg, ireg0,
                        [artifact_id |-> receipt_id, kind |-> "INFERENCE_RECEIPT",
                         sha256 |-> sha256_file(fs0, receipt_path)])
           ELSE
             LET base == ReceiptBase(inp.created_at_utc, inp.request_id, inp.request_hash,
                                     inp.snapshot_hash, inp.provider, inp.model,
                                     result_kind, result_id,
                                     sha256_file(fs0, request_path),
                                     sha256_file(fs0, result_path))
                 obj == ReceiptObject(base, Sha256(base))
                 fs == WriteText(fs0, receipt_path, obj)
                 rec == RecordFromFile(fs, receipt_id, "INFERENCE_RECEIPT",
                                       inp.created_at_utc, receipt_path, media_type,
                                       <<inp.request_id, result_id>>,
                                       "inference.receipt_emit",
                                       <<"phase8", "inference", "receipt">>)
             IN IF ~RecordValid(rec, INFERENCE_ALLOWED_KINDS)
                THEN RaiseOn("record invalid", fs, ds, ireg0)
                ELSE Outcome(TRUE, "", fs, ds, artReg, RegistryAppend(ireg0, rec),
                             [artifact_id |-> receipt_id, kind |-> "INFERENCE_RECEIPT",
                              sha256 |-> sha256_file(fs, receipt_path)])

InferenceReceiptEmit(inp) ==
    /\ Call("inference.receipt_emit", inp, ReceiptEmitOn(files, dirs, infReg, inp))
    /\ UNCHANGED <<issued, providerCalls, gateLog>>

----------------------------------------------------------------------------
(* inference.execute.  The provider is the environment: what the HTTP call
   does is the input `env` of the step. *)

ProviderOk(model, output_text) == [kind |-> "ok", model |-> model, output_text |-> output_text]
ProviderHttpError == [kind |-> "http_error", model |-> "", output_text |-> ""]

(* dispatch_text: which providers have an adapter *)
TEXT_DISPATCH == {"openai"}

(* the error branch of execute: error_emit then receipt_emit; a raise in
   either leaves the handler *)
ExecuteErrorPath(fs0, ds0, ireg0, created_at_utc, request_id, req, error_type, message) ==
    LET error_id == request_id \o "--error"
        e1 == ErrorEmitOn(fs0, ds0, ireg0,
                  [created_at_utc |-> created_at_utc, request_id |-> request_id,
                   request_hash |-> req.request_hash, snapshot_hash |-> req.snapshot_hash,
                   provider |-> req.provider, model |-> req.model,
                   error_type |-> error_type, message |-> message, details |-> None,
                   error_id |-> error_id, media_type |-> None])
    IN IF ~e1.ok THEN e1
       ELSE LET e2 == ReceiptEmitOn(e1.files, e1.dirs, e1.infReg,
                          [created_at_utc |-> created_at_utc, request_id |-> request_id,
                           request_hash |-> req.request_hash,
                           snapshot_hash |-> req.snapshot_hash,
                           provider |-> req.provider, model |-> req.model,
                           response_id |-> None, error_id |-> error_id,
                           receipt_id |-> None, media_type |-> None])
            IN IF ~e2.ok THEN e2
               ELSE Outcome(TRUE, "", e2.files, e2.dirs, artReg, e2.infReg,
                            [ok |-> FALSE, emitted |-> e1.out, emitted_receipt |-> e2.out])

(* does the call reach the provider adapter *)
ExecuteCallsProvider(inp) ==
    /\ IsNonEmptyStr(inp.created_at_utc)
    /\ IsNonEmptyStr(inp.request_id)
    /\ FileExists(files, PathOf(REQUESTS_DIR, inp.request_id, ".json"))
    /\ files[PathOf(REQUESTS_DIR, inp.request_id, ".json")].kind = "inference.request"
    /\ files[PathOf(REQUESTS_DIR, inp.request_id, ".json")].provider \in TEXT_DISPATCH

ExecuteOutcome(inp, env) ==
    IF ~IsNonEmptyStr(inp.created_at_utc) THEN Raise("tool_input.created_at_utc must be injected")
    ELSE IF ~IsNonEmptyStr(inp.request_id)
    THEN Raise("tool_input.request_id must be a non-empty string")
    ELSE
      LET request_id == inp.request_id
          req_path == PathOf(REQUESTS_DIR, request_id, ".json") IN
      IF ~FileExists(files, req_path) THEN Raise("inference_execute_missing_request")
      ELSE
        LET req == files[req_path] IN
        IF req.kind # "inference.request"
        THEN Raise("inference_execute_invalid_request_kind: expected inference.request")
        ELSE IF ~IsNonEmptyStr(req.provider) THEN Raise("inference_execute_request_missing_provider")
        ELSE IF ~IsNonEmptyStr(req.model) THEN Raise("inference_execute_request_missing_model")
        ELSE IF ~IsLen64(req.snapshot_hash)
        THEN Raise("inference_execute_request_missing_snapshot_hash")
        ELSE IF ~IsLen64(req.request_hash)
        THEN Raise("inference_execute_request_missing_request_hash")
        ELSE IF req.params.max_tokens <= 0
        THEN Raise("inference_execute_request_missing_max_tokens")
        ELSE IF ~IsNonEmptyStr(req.prompts.user_prompt)
        THEN Raise("inference_execute_request_user_prompt_invalid")
        ELSE
          IF req.provider \notin TEXT_DISPATCH
          THEN ExecuteErrorPath(files, dirs, infReg, inp.created_at_utc, request_id, req,
                                "inference_execute_error",
                                "dispatch_text_unsupported_provider: " \o req.provider)
          ELSE IF env.kind = "http_error"
          THEN ExecuteErrorPath(files, dirs, infReg, inp.created_at_utc, request_id, req,
                                "provider_http_error", "openai_http_error")
          ELSE
            LET response_id == request_id \o "--response"
                o1 == ResponseEmitOn(files, dirs, infReg,
                          [created_at_utc |-> inp.created_at_utc, request_id |-> request_id,
                           request_hash |-> req.request_hash,
                           snapshot_hash |-> req.snapshot_hash,
                           provider |-> "openai", model |-> env.model,
                           output_text |-> env.output_text,
                           response_id |-> response_id, media_type |-> None])
            IN IF ~o1.ok
               THEN ExecuteErrorPath(o1.files, o1.dirs, o1.infReg, inp.created_at_utc,
                                     request_id, req, "inference_execute_error", o1.err)
               ELSE
                 LET o2 == ReceiptEmitOn(o1.files, o1.dirs, o1.infReg,
                               [created_at_utc |-> inp.created_at_utc,
                                request_id |-> request_id,
                                request_hash |-> req.request_hash,
                                snapshot_hash |-> req.snapshot_hash,
                                provider |-> "openai", model |-> env.model,
                                response_id |-> response_id, error_id |-> None,
                                receipt_id |-> None, media_type |-> None])
                 IN IF ~o2.ok
                    THEN ExecuteErrorPath(o2.files, o2.dirs, o2.infReg, inp.created_at_utc,
                                          request_id, req, "inference_execute_error", o2.err)
                    ELSE Outcome(TRUE, "", o2.files, o2.dirs, artReg, o2.infReg,
                                 [ok |-> TRUE, emitted |-> o1.out,
                                  emitted_receipt |-> o2.out])

ProviderCall(req) ==
    [provider |-> req.provider, model |-> req.model,
     temperature |-> req.params.temperature, max_tokens |-> req.params.max_tokens]

InferenceExecute(inp, env) ==
    /\ Call("inference.execute", inp, ExecuteOutcome(inp, env))
    /\ providerCalls' =
           IF ExecuteCallsProvider(inp)
           THEN providerCalls \cup
                {ProviderCall(files[PathOf(REQUESTS_DIR, inp.request_id, ".json")])}
           ELSE providerCalls
    /\ UNCHANGED <<issued, gateLog>>

----------------------------------------------------------------------------
(* inference.replay: reads only *)

ReceiptBaseOf(obj) ==
    [kind |-> obj.kind, created_at_utc |-> obj.created_at_utc,
     request_id |-> obj.request_id, request_hash |-> obj.request_hash,
     snapshot_hash |-> obj.snapshot_hash, provider |-> obj.provider,
     model |-> obj.model, result |-> obj.result, inputs_sha256 |-> obj.inputs_sha256]

(* a replay that compares the stored receipt_hash with itself *)
ReceiptHashTrusted(obj) == obj.receipt_hash

(* base = dict(obj); base.pop("receipt_hash"); sha256_hex(canonical_dumps(base)) *)
ReceiptHashRecomputed(obj) == Sha256(ReceiptBaseOf(obj))

(* A replay that is not the code's: it leaves a result file behind *)
ReplayOutcomeWriting(inp) ==
    Outcome(TRUE, "",
            WriteText(files, PathOf(RECEIPTS_DIR, "replay-result", ".json"),
                      [fmt |-> "json", kind |-> "inference.replay", provider |-> ""]),
            dirs, artReg, infReg, [status |-> "replay_ok"])

ReplayOutcome(inp) ==
    IF ~IsNonEmptyStr(inp.receipt_id) THEN Raise("tool_input.receipt_id must be non-empty string")
    ELSE
      LET receipt_path == PathOf(RECEIPTS_DIR, inp.receipt_id, ".json") IN
      IF ~FileExists(files, receipt_path) THEN Raise("replay_reject: receipt file missing")
      ELSE
        LET obj == files[receipt_path] IN
        IF obj.kind # "inference.receipt" THEN Raise("replay_reject: invalid receipt kind")
        ELSE IF ~IsHex64(obj.receipt_hash) THEN Raise("replay_reject: invalid stored receipt_hash")
        ELSE IF obj.request_id = "" THEN Raise("replay_reject: invalid request_id")
        ELSE IF obj.result.kind \notin {"response", "error"}
        THEN Raise("replay_reject: invalid result.kind")
        ELSE IF obj.result.artifact_id = "" THEN Raise("replay_reject: invalid result.artifact_id")
        ELSE
          LET request_path == PathOf(REQUESTS_DIR, obj.request_id, ".json")
              result_path == PathOf(IF obj.result.kind = "response" THEN RESPONSES_DIR
                                    ELSE ERRORS_DIR, obj.result.artifact_id, ".json")
          IN
          IF ~FileExists(files, request_path) THEN Raise("replay_reject: request file missing")
          ELSE IF ~FileExists(files, result_path) THEN Raise("replay_reject: result file missing")
          ELSE IF sha256_file(files, request_path) # obj.inputs_sha256.request_sha256
          THEN Raise("replay_reject: request sha mismatch")
          ELSE IF sha256_file(files, result_path) # obj.inputs_sha256.result_sha256
          THEN Raise("replay_reject: result sha mismatch")
          ELSE IF ReceiptHashRecomputed(obj) # obj.receipt_hash
          THEN Raise("replay_reject: receipt_hash mismatch")
          ELSE Outcome(TRUE, "", files, dirs, artReg, infReg,
                       [status |-> "replay_ok", receipt_id |-> inp.receipt_id,
                        request_sha256 |-> sha256_file(files, request_path),
                        result_sha256 |-> sha256_file(files, result_path),
                        receipt_hash |-> ReceiptHashRecomputed(obj)])

InferenceReplay(inp) ==
    /\ Call("inference.replay", inp, ReplayOutcome(inp))
    /\ UNCHANGED <<issued, providerCalls, gateLog>>

----------------------------------------------------------------------------
(* Edits made outside the tools, as the replay proof makes them: a JSON file
   of the inference store rewritten with another provider, or removed *)

InferenceFiles == {p \in DOMAIN files : p[1] \in INFERENCE_DIRS}

OutsideEdits == Cardinality(edited)

TamperFile(path) ==
    /\ OutsideEdits < MaxOutsideEdits
    /\ files[path].provider # "tampered-provider"
    /\ files' = [files EXCEPT ![path].provider = "tampered-provider"]
    /\ edited' = edited \cup {[path |-> path, how |-> "field", field |-> "provider", n |-> OutsideEdits + 1]}
    /\ last' = [tool |-> "outside.tamper", input |-> [path |-> path], ok |-> TRUE,
                err |-> "", out |-> NoOut]
    /\ UNCHANGED <<ledger, memStore, dirs, artReg, infReg, issued, providerCalls, gateLog>>
    /\ UNCHANGED conc

DeleteFile(path) ==
    /\ OutsideEdits < MaxOutsideEdits
    /\ files' = Unlink(files, path)
    /\ edited' = edited \cup {[path |-> path, how |-> "delete", field |-> "", n |-> OutsideEdits + 1]}
    /\ last' = [tool |-> "outside.delete", input |-> [path |-> path], ok |-> TRUE,
                err |-> "", out |-> NoOut]
    /\ UNCHANGED <<ledger, memStore, dirs, artReg, infReg, issued, providerCalls, gateLog>>
    /\ UNCHANGED conc

----------------------------------------------------------------------------
Init ==
    /\ files = <<>>
    /\ dirs = {}
    /\ artReg = <<>>
    /\ infReg = <<>>
    /\ issued = {}
    /\ providerCalls = {}
    /\ gateLog = {}
    /\ edited = {}
    /\ ledger = <<>>
    /\ memStore = <<>>
    /\ procs = <<>>
    /\ written = <<>>
    /\ inst = NoOut
    /\ last = [tool |-> "none", input |-> NoOut, ok |-> TRUE, err |-> "", out |-> NoOut]

(* Inputs of the calls.  A parent id is the id of a file already in the
   parent's directory, or (where stated) an id that names nothing. *)

IdsIn(dir) == {p[2] : p \in {q \in DOMAIN files : q[1] = dir}}

IngestInputs ==
    [created_at_utc : Timestamps, content : RawTexts, media_type : {None},
     artifact_id : CallerIds]
    \cup [created_at_utc : Timestamps, content : {<<"fact">>}, media_type : {None},
          artifact_id : {None}]

SanitizeInputs ==
    [created_at_utc : Timestamps, media_type : {None},
     raw_artifact_id : IdsIn(RAW_DIR) \cup {MissingId}, sanitized_artifact_id : {None}]

CanonSelectInputs ==
    [created_at_utc : Timestamps, media_type : {None},
     sanitized_artifact_id : IdsIn(SANITIZED_DIR), canon_artifact_id : {None}]

BundleManifestInputs ==
    [created_at_utc : Timestamps, media_type : {None},
     canon_artifact_id : IdsIn(BUNDLES_DIR) \cup {MissingId}, bundle_artifact_id : {None}]

BuildSpecInputs ==
    [created_at_utc : Timestamps, media_type : {None},
     bundle_artifact_id : IdsIn(BUNDLES_DIR), provider : {"openai"},
     model : {"gpt-4o"}, temperature : {0}, max_tokens : {MaxTokensCap},
     spec_artifact_id : {None}, inferred_notes : {None}]

WorkOrderEmitInputs ==
    [created_at_utc : Timestamps, build_spec_artifact_id : IdsIn(SPECS_DIR),
     media_type : {None, BadType}, work_order_artifact_id : {None}]

SnapshotExportInputs ==
    [created_at_utc : Timestamps, work_order_artifact_id : IdsIn(WORK_ORDERS_DIR),
     encryption_passphrase : {"passphrase"}, snapshot_id : {None},
     media_type_archive : {None}]

ArtifactsNext ==
    \/ \E inp \in IngestInputs : ArtifactIngest(inp)
    \/ \E inp \in SanitizeInputs : ArtifactSanitize(inp)
    \/ \E inp \in CanonSelectInputs : ArtifactCanonSelect(inp)
    \/ \E inp \in BundleManifestInputs : ArtifactBundleManifest(inp)
    \/ \E inp \in BuildSpecInputs : ArtifactBuildSpec(inp)
    \/ \E inp \in WorkOrderEmitInputs : ArtifactWorkOrderEmit(inp)
    \/ \E inp \in SnapshotExportInputs : ArtifactSnapshotExport(inp, {"none", "openssl"})

SpecArtifacts == Init /\ [][ArtifactsNext]_vars

(* One raw text taken down the whole pipeline under default ids, every stage
   also called with a parent id that names nothing (writing to its default
   output id or to the id of an output already there), and the snapshot
   export failing at each step of its try block *)
MissingParentInputs ==
    [sanitize |-> [created_at_utc : Timestamps, media_type : {None},
                   raw_artifact_id : {MissingId},
                   sanitized_artifact_id : {None} \cup IdsIn(SANITIZED_DIR)],
     canon_select |-> [created_at_utc : Timestamps, media_type : {None},
                       sanitized_artifact_id : {MissingId},
                       canon_artifact_id : {None} \cup IdsIn(BUNDLES_DIR)],
     bundle_manifest |-> [created_at_utc : Timestamps, media_type : {None},
                          canon_artifact_id : {MissingId},
                          bundle_artifact_id : {None} \cup IdsIn(BUNDLES_DIR)],
     build_spec |-> [created_at_utc : Timestamps, media_type : {None},
                     bundle_artifact_id : {MissingId}, provider : {"openai"},
                     model : {"gpt-4o"}, temperature : {0}, max_tokens : {MaxTokensCap},
                     spec_artifact_id : {None} \cup IdsIn(SPECS_DIR),
                     inferred_notes : {None}],
     work_order_emit |-> [created_at_utc : Timestamps,
                          build_spec_artifact_id : {MissingId},
                          media_type : {None},
                          work_order_artifact_id : {None} \cup IdsIn(WORK_ORDERS_DIR)],
     snapshot_export |-> [created_at_utc : Timestamps,
                          work_order_artifact_id : {MissingId},
                          encryption_passphrase : {"passphrase"},
                          snapshot_id : {None} \cup {w \o "--snapshot" :
                                                        w \in IdsIn(WORK_ORDERS_DIR)},
                          media_type_archive : {None}]]

PipelineNext ==
    \/ \E inp \in {i \in IngestInputs : i.artifact_id = None} : ArtifactIngest(inp)
    \/ \E inp \in SanitizeInputs \cup MissingParentInputs.sanitize : ArtifactSanitize(inp)
    \/ \E inp \in CanonSelectInputs \cup MissingParentInputs.canon_select :
           ArtifactCanonSelect(inp)
    \/ \E inp \in {i \in BundleManifestInputs :
                      PathOf(BUNDLES_DIR, i.canon_artifact_id, ".jsonl") \in DOMAIN files}
                  \cup MissingParentInputs.bundle_manifest :
           ArtifactBundleManifest(inp)
    \/ \E inp \in {i \in BuildSpecInputs :
                      PathOf(BUNDLES_DIR, i.bundle_artifact_id, ".json") \in DOMAIN files}
                  \cup MissingParentInputs.build_spec : ArtifactBuildSpec(inp)
    \/ \E inp \in {i \in WorkOrderEmitInputs : i.media_type = None}
                  \cup MissingParentInputs.work_order_emit : ArtifactWorkOrderEmit(inp)
    \/ \E inp \in SnapshotExportInputs \cup MissingParentInputs.snapshot_export :
           ArtifactSnapshotExport(inp, SnapshotFaults)

SpecPipeline == Init /\ [][PipelineNext]_vars

(* Hashes a caller passes: a digest, 64 characters that are not all hex, and a
   string of another length *)
CallerHash == [len64 |-> TRUE, hex |-> TRUE, of |-> "caller"]
NotHexHash == [len64 |-> TRUE, hex |-> FALSE, of |-> "caller"]
ShortHash == [len64 |-> FALSE, hex |-> TRUE, of |-> "caller"]

GoodRequest ==
    [created_at_utc |-> "2026-02-12T00:00:00Z", snapshot_hash |-> CallerHash,
     provider |-> "openai", model |-> "gpt-4o", system_prompt |-> "",
     user_prompt |-> "hello", temperature |-> Num(0), max_tokens |-> Num(1),
     provider_max_tokens_cap |-> Num(MaxTokensCap), request_id |-> "r",
     media_type |-> None]

AcceptedRequests ==
    {GoodRequest,
     [GoodRequest EXCEPT !.temperature = Num(TEMPERATURE_MAX),
                         !.max_tokens = Num(MaxTokensCap)],
     [GoodRequest EXCEPT !.provider = "anthropic", !.model = "claude-3-opus",
                         !.request_id = None]}

RejectedRequests ==
    {[GoodRequest EXCEPT !.model = "gpt-5"],
     [GoodRequest EXCEPT !.temperature = Num(TEMPERATURE_MAX + 1)],
     [GoodRequest EXCEPT !.temperature = Num(TEMPERATURE_MIN - 1)],
     [GoodRequest EXCEPT !.max_tokens = Num(MaxTokensCap + 1)],
     [GoodRequest EXCEPT !.provider = "mistral"],
     [GoodRequest EXCEPT !.temperature = NotNum],
     [GoodRequest EXCEPT !.max_tokens = NotNum],
     [GoodRequest EXCEPT !.max_tokens = Num(0)]}

RequestEmitInputs == AcceptedRequests \cup RejectedRequests

ExecuteInputs ==
    [created_at_utc : Timestamps, request_id : IdsIn(REQUESTS_DIR) \cup {MissingId}]

ProviderOutcomes == {ProviderOk("gpt-4o", "hi"), ProviderHttpError}

(* A caller of the emitters passes the hashes, provider and model of the request
   file it refers to, or refers to no request at all *)
RequestFile(id) == files[PathOf(REQUESTS_DIR, id, ".json")]

ResponseEmitInputs ==
    {[created_at_utc |-> "2026-02-12T00:00:00Z", request_id |-> id,
      request_hash |-> RequestFile(id).request_hash,
      snapshot_hash |-> RequestFile(id).snapshot_hash,
      provider |-> RequestFile(id).provider, model |-> RequestFile(id).model,
      output_text |-> "hi", response_id |-> None, media_type |-> None]
        : id \in IdsIn(REQUESTS_DIR)}
    \cup [created_at_utc : Timestamps, request_id : {MissingId},
          request_hash : {NotHexHash}, snapshot_hash : {CallerHash},
          provider : {"openai"}, model : {"gpt-4o"}, output_text : {"hi"},
          response_id : {None}, media_type : {None}]

ErrorEmitInputs ==
    {[created_at_utc |-> "2026-02-12T00:00:00Z", request_id |-> id,
      request_hash |-> RequestFile(id).request_hash,
      snapshot_hash |-> RequestFile(id).snapshot_hash,
      provider |-> RequestFile(id).provider, model |-> RequestFile(id).model,
      error_type |-> "provider_http_error", message |-> "openai_http_error",
      details |-> None, error_id |-> None, media_type |-> None]
        : id \in IdsIn(REQUESTS_DIR)}
    \cup [created_at_utc : Timestamps, request_id : {MissingId},
          request_hash : {CallerHash}, snapshot_hash : {ShortHash},
          provider : {"openai"}, model : {"gpt-4o"},
          error_type : {"provider_http_error"}, message : {"openai_http_error"},
          details : {None}, error_id : {None}, media_type : {None}]

ReceiptEmitInputs ==
    UNION {[created_at_utc : Timestamps, request_id : {id},
            request_hash : {RequestFile(id).request_hash},
            snapshot_hash : {RequestFile(id).snapshot_hash},
            provider : {RequestFile(id).provider}, model : {RequestFile(id).model},
            response_id : ({id \o "--response"} \cap IdsIn(RESPONSES_DIR)) \cup {None},
            error_id : ({id \o "--error"} \cap IdsIn(ERRORS_DIR)) \cup {None},
            receipt_id : {None}, media_type : {None}]
              : id \in IdsIn(REQUESTS_DIR)}
    \cup
    UNION {[created_at_utc : Timestamps, request_id : {id},
            request_hash : {RequestFile(id).request_hash},
            snapshot_hash : {RequestFile(id).snapshot_hash},
            provider : {RequestFile(id).provider}, model : {RequestFile(id).model},
            response_id : {ids[1]}, error_id : {ids[2]},
            receipt_id : {None}, media_type : {None}]
              : id \in IdsIn(REQUESTS_DIR),
                ids \in {<<MissingId, None>>, <<None, MissingId>>}}

ReplayInputs == [receipt_id : IdsIn(RECEIPTS_DIR) \cup {MissingId}]

InferenceNext ==
    \/ \E inp \in RequestEmitInputs : InferenceRequestEmit(inp)
    \/ \E inp \in ResponseEmitInputs : InferenceResponseEmit(inp)
    \/ \E inp \in ErrorEmitInputs : InferenceErrorEmit(inp)
    \/ \E inp \in ReceiptEmitInputs : InferenceReceiptEmit(inp)
    \/ \E inp \in ExecuteInputs, env \in ProviderOutcomes : InferenceExecute(inp, env)
    \/ \E inp \in ReplayInputs : InferenceReplay(inp)

SpecInference == Init /\ [][InferenceNext]_vars

(* A JSON file rewritten from outside with the same object in another layout
   (indentation, key order): other bytes, and json.loads reads the same object *)
ReformatFile(path) ==
    /\ OutsideEdits < MaxOutsideEdits
    /\ files[path].fmt = "json"
    /\ files' = [files EXCEPT ![path].fmt = "json-reformatted"]
    /\ edited' = edited \cup {[path |-> path, how |-> "layout", field |-> "", n |-> OutsideEdits + 1]}
    /\ last' = [tool |-> "outside.reformat", input |-> [path |-> path], ok |-> TRUE,
                err |-> "", out |-> NoOut]
    /\ UNCHANGED <<ledger, memStore, dirs, artReg, infReg, issued, providerCalls, gateLog>>
    /\ UNCHANGED conc

TamperedHash == Sha256([fmt |-> "tampered"])

(* One field of a receipt given another value, as the tamper cycle of the proofs
   does with provider *)
ReceiptEdits ==
    {[field |-> "kind", value |-> "tampered"],
     [field |-> "created_at_utc", value |-> "tampered"],
     [field |-> "request_id", value |-> "tampered"],
     [field |-> "request_hash", value |-> TamperedHash],
     [field |-> "snapshot_hash", value |-> NotHexHash],
     [field |-> "provider", value |-> "tampered-provider"],
     [field |-> "model", value |-> "tampered"],
     [field |-> "result.kind", value |-> "tampered"],
     [field |-> "result.kind", value |-> "response"],
     [field |-> "result.kind", value |-> "error"],
     [field |-> "result.artifact_id", value |-> "tampered"],
     [field |-> "inputs_sha256.request_sha256", value |-> TamperedHash],
     [field |-> "inputs_sha256.result_sha256", value |-> TamperedHash],
     [field |-> "receipt_hash", value |-> TamperedHash],
     [field |-> "receipt_hash", value |-> NotHexHash]}

ApplyReceiptEdit(obj, e) ==
    CASE e.field = "kind" -> [obj EXCEPT !.kind = e.value]
      [] e.field = "created_at_utc" -> [obj EXCEPT !.created_at_utc = e.value]
      [] e.field = "request_id" -> [obj EXCEPT !.request_id = e.value]
      [] e.field = "request_hash" -> [obj EXCEPT !.request_hash = e.value]
      [] e.field = "snapshot_hash" -> [obj EXCEPT !.snapshot_hash = e.value]
      [] e.field = "provider" -> [obj EXCEPT !.provider = e.value]
      [] e.field = "model" -> [obj EXCEPT !.model = e.value]
      [] e.field = "result.kind" -> [obj EXCEPT !.result.kind = e.value]
      [] e.field = "result.artifact_id" -> [obj EXCEPT !.result.artifact_id = e.value]
      [] e.field = "inputs_sha256.request_sha256"
           -> [obj EXCEPT !.inputs_sha256.request_sha256 = e.value]
      [] e.field = "inputs_sha256.result_sha256"
           -> [obj EXCEPT !.inputs_sha256.result_sha256 = e.value]
      [] e.field = "receipt_hash" -> [obj EXCEPT !.receipt_hash = e.value]

TamperReceiptField(path, e) ==
    /\ OutsideEdits < MaxOutsideEdits
    /\ path[1] = RECEIPTS_DIR
    /\ ApplyReceiptEdit(files[path], e) # files[path]
    /\ files' = [files EXCEPT ![path] = ApplyReceiptEdit(files[path], e)]
    /\ edited' = edited \cup {[path |-> path, how |-> "field", field |-> e.field, n |-> OutsideEdits + 1]}
    /\ last' = [tool |-> "outside.tamper_field", input |-> [path |-> path], ok |-> TRUE,
                err |-> "", out |-> NoOut]
    /\ UNCHANGED <<ledger, memStore, dirs, artReg, infReg, issued, providerCalls, gateLog>>
    /\ UNCHANGED conc

(* Replay over stores that the tools wrote and that were then edited from
   outside *)
ReplayNext ==
    \/ \E inp \in {i \in IngestInputs : i.artifact_id # None /\ i.content = <<"fact">>} :
           ArtifactIngest(inp)
    \/ \E inp \in {GoodRequest} : InferenceRequestEmit(inp)
    \/ \E inp \in ExecuteInputs, env \in ProviderOutcomes : InferenceExecute(inp, env)
    \/ \E inp \in ReplayInputs : InferenceReplay(inp)
    \/ \E path \in InferenceFiles : TamperFile(path)
    \/ \E path \in InferenceFiles : DeleteFile(path)
    \/ \E path \in InferenceFiles : ReformatFile(path)
    \/ \E path \in InferenceFiles, e \in ReceiptEdits : TamperReceiptField(path, e)

SpecReplay == Init /\ [][ReplayNext]_vars

----------------------------------------------------------------------------
(* Run ledger, trust snapshots, memory store and the dispatcher.  ts_utc of a
   ledger line and timestamp_utc of a snapshot are wall-clock readings and are
   left out of the modelled lines. *)

RUN_DIR == ".adam_os/runs"
MaxDispatches == 2
MaxMemRecords == 2
MintedRunIds == {"run-1", "run-2"}
CallerRunIds == {"r"}
NoToolInput == [absent |-> TRUE]         \* tool_input=None
NotADict == [not_a_dict |-> TRUE]        \* a truthy value that is not a dict
EmptyPayload == [empty |-> TRUE]
UnserializablePayload == [unserializable |-> TRUE]

(* str.strip() on the tool names the model uses *)
Strip(s) ==
    CASE s = " memory.write " -> "memory.write"
      [] s = "  " -> ""
      [] OTHER -> s

(* what git reports to collect_snapshot: outside a work tree every command
   fails and _run returns "" *)
GitStates ==
    { [branch |-> "main", head_commit |-> "abc", porcelain |-> <<>>],
      [branch |-> "main", head_commit |-> "abc", porcelain |-> <<"?? .adam_os/">>],
      [branch |-> "", head_commit |-> "", porcelain |-> <<>>] }

collect_snapshot(g) ==
    [git |-> [branch |-> g.branch,
              head_commit |-> g.head_commit,
              is_clean |-> (g.porcelain = <<>>),
              modified_files |-> <<>>,
              untracked_files |-> IF g.porcelain = <<>> THEN <<>> ELSE <<".adam_os/">>],
     fs |-> [repo_root |-> "."]]

Violation(cond, name) == IF cond THEN <<name>> ELSE <<>>

EmptyDict == [k \in {} |-> None]

(* d.get(k) *)
Get(d, k) == IF k \in DOMAIN d THEN d[k] ELSE None

(* snapshot.get("git", {}) *)
GitOf(snapshot) == IF "git" \in DOMAIN snapshot THEN snapshot.git ELSE EmptyDict

(* req(): the value is None or a blank string *)
MissingRequired(val) == val = None \/ Strip(val) = ""

(* a work tree that counts as clean when nothing is said about it *)
IsCleanUnlessSaidOtherwise(git) == IF "is_clean" \in DOMAIN git THEN git.is_clean ELSE TRUE

(* bool(git.get("is_clean", False)) *)
IsClean(git) == IF "is_clean" \in DOMAIN git THEN git.is_clean ELSE FALSE

(* bool(git.get(k)) for a list *)
HasFiles(git, k) == IF k \in DOMAIN git THEN git[k] # <<>> ELSE FALSE

evaluate_trust(pre, post) ==
    LET pre_git == GitOf(pre)
        post_git == GitOf(post)
        violations ==
            Violation(MissingRequired(Get(pre_git, "branch")),
                      "missing_required:pre.git.branch")
         \o Violation(MissingRequired(Get(pre_git, "head_commit")),
                      "missing_required:pre.git.head_commit")
         \o Violation(MissingRequired(Get(post_git, "branch")),
                      "missing_required:post.git.branch")
         \o Violation(MissingRequired(Get(post_git, "head_commit")),
                      "missing_required:post.git.head_commit")
         \o Violation(Get(pre_git, "branch") # Get(post_git, "branch"),
                      "git.branch_changed")
         \o Violation(Get(pre_git, "head_commit") # Get(post_git, "head_commit"),
                      "git.head_changed")
         \o Violation(~IsClean(pre_git), "git.pre_not_clean")
         \o Violation(~IsClean(post_git), "git.post_not_clean")
         \o Violation(HasFiles(pre_git, "modified_files"),
                      "git.pre_modified_files_present")
         \o Violation(HasFiles(pre_git, "untracked_files"),
                      "git.pre_untracked_files_present")
         \o Violation(HasFiles(post_git, "modified_files"),
                      "git.post_modified_files_present")
         \o Violation(HasFiles(post_git, "untracked_files"),
                      "git.post_untracked_files_present")
    IN [status |-> IF violations = <<>> THEN "TRUSTED" ELSE "TAINTED",
        violations |-> violations]

(* evaluate_trust applied to snapshots of every shape: each field of the git
   block present with one of a few values, or absent *)
OneOf(k, values) == {EmptyDict} \cup {[x \in {k} |-> v] : v \in values}

GitBlocks ==
    {b @@ h @@ c @@ m @@ u :
        b \in OneOf("branch", {"main", "dev", "", "  "}),
        h \in OneOf("head_commit", {"abc", "def"}),
        c \in OneOf("is_clean", BOOLEAN),
        m \in {[x \in {"modified_files"} |-> fs] : fs \in {<<>>, <<"f">>}},
        u \in {[x \in {"untracked_files"} |-> fs] : fs \in {<<>>, <<"g">>}}}

Snapshots ==
    {[fs |-> [repo_root |-> "."]]} \cup {[git |-> g, fs |-> [repo_root |-> "."]] : g \in GitBlocks}

InitTrust ==
    /\ files = <<>>
    /\ dirs = {}
    /\ artReg = <<>>
    /\ infReg = <<>>
    /\ issued = {}
    /\ providerCalls = {}
    /\ gateLog = {}
    /\ edited = {}
    /\ ledger = <<>>
    /\ memStore = <<>>
    /\ procs = <<>>
    /\ written = <<>>
    /\ inst = NoOut
    /\ \E pre \in Snapshots, post \in Snapshots :
          last = [tool |-> "none", input |-> [pre |-> pre, post |-> post], ok |-> TRUE,
                  err |-> "", out |-> NoOut]

EvaluateTrust ==
    /\ last.tool = "none"
    /\ last' = [tool |-> "trust.evaluate", input |-> last.input, ok |-> TRUE, err |-> "",
                out |-> evaluate_trust(last.input.pre, last.input.post)]
    /\ UNCHANGED <<files, dirs, artReg, infReg, issued, providerCalls, gateLog, edited,
                   ledger, memStore>>
    /\ UNCHANGED conc

SpecTrust == InitTrust /\ [][EvaluateTrust]_vars

(* memory.write *)
StoreLines(store, path) == IF path \in DOMAIN store THEN store[path] ELSE <<>>

(* resolve_paths: the file of a run *)
RunFile(run_id) == RUN_DIR \o "/" \o run_id \o ".jsonl"

IsRunFile(path) == \E r \in MintedRunIds \cup CallerRunIds : path = RunFile(r)

RunIdOfFile(path) == CHOOSE r \in MintedRunIds \cup CallerRunIds : path = RunFile(r)

(* .adam_os/artifacts is there once a registry append (ensure_dirs) or a
   write of an artifact file has made it *)
ArtifactRootExists ==
    \/ artReg # <<>>
    \/ \E p \in DOMAIN files :
          p[1] \in {RAW_DIR, SANITIZED_DIR, BUNDLES_DIR, SPECS_DIR, WORK_ORDERS_DIR}

(* append_record's test of p.parent: "." is there, and so is the run
   directory, which RunLedger.__init__ made before the tool is executed *)
ParentDirExists(path) ==
    \/ path = "mem.jsonl"
    \/ IsRunFile(path)
    \/ path = ART_REGISTRY_PATH /\ ArtifactRootExists

deterministic_memory_id(base) ==
    "mem_" \o base.type \o "_" \o base.source \o "|" \o base.text
           \o "|" \o base.created_at_utc

build_memory_record(rec) ==
    LET base == [type |-> rec.type, source |-> rec.source, text |-> rec.text,
                 created_at_utc |-> rec.created_at_utc, tags |-> <<>>, refs |-> <<>>]
        record_wo_hash == [memory_id |-> deterministic_memory_id(base),
                           type |-> rec.type, source |-> rec.source, tags |-> <<>>,
                           text |-> rec.text, refs |-> <<>>,
                           created_at_utc |-> rec.created_at_utc]
    IN [memory_id |-> record_wo_hash.memory_id, type |-> rec.type,
        source |-> rec.source, tags |-> <<>>, text |-> rec.text, refs |-> <<>>,
        created_at_utc |-> rec.created_at_utc, hash |-> Sha256(record_wo_hash)]

ToolReturn(ok, err, out, o, store) ==
    [found |-> TRUE, ok |-> ok, err |-> err, out |-> out, store |-> o, memStore |-> store,
     runWrites |-> <<>>]

MemoryWriteOutcome(inp) ==
    IF inp = EmptyPayload
    THEN ToolReturn(FALSE, "tool_input.store_path must be a non-empty string", NoOut,
                    Raise(""), memStore)
    ELSE IF ~IsNonEmptyStr(inp.record.text)
    THEN ToolReturn(FALSE, "text must be non-empty", NoOut, Raise(""), memStore)
    ELSE IF ~ParentDirExists(inp.store_path)
    THEN ToolReturn(FALSE, "parent directory does not exist", NoOut, Raise(""), memStore)
    ELSE LET record == build_memory_record(inp.record)
             store == [p \in DOMAIN memStore \cup {inp.store_path} |->
                          IF p = inp.store_path
                          THEN Append(StoreLines(memStore, p), record)
                          ELSE memStore[p]]
             out == [memory_id |-> record.memory_id, record_hash |-> record.hash,
                     store_path |-> inp.store_path]
         IN IF IsRunFile(inp.store_path)
            THEN [ToolReturn(TRUE, "", out, Raise(""), memStore)
                    EXCEPT !.runWrites = <<[run_id |-> RunIdOfFile(inp.store_path),
                                            line |-> record]>>]
            ELSE IF inp.store_path = ART_REGISTRY_PATH
            THEN ToolReturn(TRUE, "", out, [Raise("") EXCEPT !.artReg = Append(@, record)],
                            memStore)
            ELSE ToolReturn(TRUE, "", out, Raise(""), store)

(* LocalExecutor.execute_tool: the tools the executor wires, a tool's
   exception re-raised as ToolExecutionError(str(e)) *)
WIRED_TOOLS ==
    {"repo.list_files", "repo.read_text", "memory.write", "artifact.ingest",
     "artifact.sanitize", "artifact.canon_select", "artifact.bundle_manifest",
     "artifact.build_spec", "artifact.work_order_emit", "artifact.snapshot_export",
     "inference.request_emit", "inference.response_emit", "inference.error_emit"}

ToolNotFound(err) ==
    [found |-> FALSE, ok |-> FALSE, err |-> err, out |-> NoOut, store |-> Raise(""),
     memStore |-> memStore, runWrites |-> <<>>]

ExecuteTool(name, payload) ==
    IF name = "" THEN ToolNotFound("empty tool name")
    ELSE IF name \notin WIRED_TOOLS THEN ToolNotFound("Tool not wired: " \o name)
    ELSE IF name = "memory.write" THEN MemoryWriteOutcome(payload)
    ELSE IF payload = EmptyPayload
    THEN ToolReturn(FALSE, "tool_input.created_at_utc must be a non-empty injected string",
                    NoOut, Raise(""), memStore)
    ELSE LET o == SanitizeOutcome(payload)
         IN ToolReturn(o.ok, o.err, o.out, o, memStore)

(* a receipt for any tool that returned *)
MemoryReceiptForAnyTool(tool_name, tool_output) ==
    <<[kind |-> "memory.write",
       data |-> [memory_id |-> "", record_hash |-> "", store_path |-> ""]]>>

MaybeEmitMemoryWriteReceipt(tool_name, tool_output) ==
    IF tool_name # "memory.write" THEN <<>>
    ELSE IF DOMAIN tool_output # {"memory_id", "record_hash", "store_path"} THEN <<>>
    ELSE IF tool_output.memory_id = "" \/ tool_output.store_path = "" THEN <<>>
    ELSE <<[kind |-> "memory.write",
            data |-> [memory_id |-> tool_output.memory_id,
                      record_hash |-> tool_output.record_hash,
                      store_path |-> tool_output.store_path]]>>

(* a ledger whose counter never moves *)
NumberedFromStuckCounter(events) ==
    [i \in 1..Len(events) |-> [seq |-> 1, kind |-> events[i].kind, data |-> events[i].data]]

(* RunLedger.event: seq counts the events of this RunLedger instance *)
Numbered(events) ==
    [i \in 1..Len(events) |->
        [seq |-> i, kind |-> events[i].kind, data |-> events[i].data]]

RunLines(led, run_id) == IF run_id \in DOMAIN led THEN led[run_id] ELSE <<>>

(* the lines the executed tool itself appended to the file of run r *)
LinesWrittenTo(runWrites, r) ==
    LET ws == SelectSeq(runWrites, LAMBDA w : w.run_id = r)
    IN [i \in 1..Len(ws) |-> ws[i].line]

(* the run files after a dispatch: the dispatcher's first two events land
   before the tool runs, the rest after it *)
LedgerAppend(led, run_id, events, runWrites) ==
    [r \in DOMAIN led \cup {run_id} \cup {runWrites[i].run_id : i \in 1..Len(runWrites)} |->
        IF r = run_id
        THEN RunLines(led, r) \o SubSeq(Numbered(events), 1, 2)
                 \o LinesWrittenTo(runWrites, r)
                 \o SubSeq(Numbered(events), 3, Len(events))
        ELSE RunLines(led, r) \o LinesWrittenTo(runWrites, r)]

(* a line of a run file that is a ledger event *)
IsLedgerEvent(line) == {"seq", "kind", "data"} \subseteq DOMAIN line

EventsOf(lines) == SelectSeq(lines, IsLedgerEvent)

DispatchRaised(err, ds) ==
    [returned |-> FALSE, err |-> err, dirs |-> ds, ledger |-> ledger,
     store |-> Raise(""), memStore |-> memStore, result |-> NoOut, executed |-> 0]

(* a tool.result that keeps the error text to itself *)
ToolResultWithoutError(tool_name, ex) ==
    [tool_name |-> tool_name, ok |-> ex.ok, error |-> ""]

(* the data of the tool.result event *)
ToolResultData(tool_name, ex) ==
    IF ex.ok
    THEN [tool_name |-> tool_name, ok |-> TRUE, error |-> ""]
    ELSE [tool_name |-> tool_name, ok |-> FALSE, error |-> ex.err]

(* dispatch(tool_name, tool_input, run_id=...) with the default executor *)
(* a dispatcher that runs the tool only in a clean work tree *)
ExecuteOnlyWhenClean(pre, name, payload) ==
    IF IsClean(pre.git)
    THEN [invoked |-> 1] @@ ExecuteTool(name, payload)
    ELSE [invoked |-> 0]
         @@ ToolReturn(FALSE, "blocked: work tree not clean", NoOut, Raise(""), memStore)

(* the tool call that follows the pre-run snapshot *)
ExecuteAfterSnapshot(pre, name, payload) == [invoked |-> 1] @@ ExecuteTool(name, payload)

DispatchOutcome(tool_name, tool_input, run_id, pre_git, post_git) ==
    IF Strip(tool_name) = ""
    THEN DispatchRaised("tool_name must be a non-empty string", dirs)
    ELSE IF tool_input = NotADict
    THEN DispatchRaised("tool_input must be a dict (or None)", dirs)
    ELSE
      LET payload == IF tool_input = NoToolInput THEN EmptyPayload ELSE tool_input
          ds == dirs \cup {RUN_DIR}
      IN IF payload = UnserializablePayload
         THEN DispatchRaised("Object is not JSON serializable", ds)
         ELSE
           LET pre == collect_snapshot(pre_git)
               ex == ExecuteAfterSnapshot(pre, Strip(tool_name), payload)
               post == collect_snapshot(post_git)
               receipt == IF ex.ok
                          THEN MaybeEmitMemoryWriteReceipt(Strip(tool_name), ex.out)
                          ELSE <<>>
               tool_result == ToolResultData(tool_name, ex)
               events ==
                   <<[kind |-> "run.start",
                      data |-> [tool_name |-> tool_name, tool_input |-> payload]],
                     [kind |-> "trust.pre_snapshot", data |-> pre]>>
                   \o receipt
                   \o <<[kind |-> "trust.post_snapshot", data |-> post],
                        [kind |-> "trust.classification",
                         data |-> evaluate_trust(pre, post)],
                        [kind |-> "tool.result", data |-> tool_result],
                        [kind |-> "run.end", data |-> [ok |-> ex.ok]]>>
           IN [returned |-> TRUE, err |-> "",
               dirs |-> ex.store.dirs \cup {RUN_DIR},
               ledger |-> LedgerAppend(ledger, run_id, events, ex.runWrites),
               store |-> ex.store, memStore |-> ex.memStore,
               result |-> [run_id |-> run_id, ok |-> ex.ok,
                           output |-> ex.out, error |-> ex.err,
                           events_written |-> Len(events)],
               executed |-> ex.invoked]

DispatchCount ==
    Cardinality(UNION {{<<r, i>> : i \in {j \in DOMAIN ledger[r] :
                                              /\ IsLedgerEvent(ledger[r][j])
                                              /\ ledger[r][j].kind = "run.start"}}
                          : r \in DOMAIN ledger})

Dispatch(inp, pre_git, post_git) ==
    /\ DispatchCount < MaxDispatches
    /\ \E run_id \in IF inp.run_id = None
                     THEN MintedRunIds \ DOMAIN ledger ELSE {inp.run_id} :
         LET d == DispatchOutcome(inp.tool_name, inp.tool_input, run_id,
                                  pre_git, post_git)
         IN /\ Len(d.store.artReg) <= MaxArtRecords
            /\ \A p \in DOMAIN d.memStore : Len(d.memStore[p]) <= MaxMemRecords
            /\ files' = d.store.files
            /\ dirs' = d.dirs
            /\ artReg' = d.store.artReg
            /\ infReg' = d.store.infReg
            /\ ledger' = d.ledger
            /\ memStore' = d.memStore
            /\ last' = [tool |-> "dispatch", input |-> inp, ok |-> d.returned,
                        err |-> d.err, out |-> d.result, executed |-> d.executed]
    /\ UNCHANGED <<issued, providerCalls, gateLog, edited>>
    /\ UNCHANGED conc

MemoryWriteInputs ==
    [store_path : {"mem.jsonl"},
     record : [type : {"semantic"}, source : {"user"}, text : {"a", ""},
               created_at_utc : Timestamps]]
    \cup [store_path : {"nodir/mem.jsonl", ART_REGISTRY_PATH}
                        \cup {RunFile(r) : r \in CallerRunIds},
          record : [type : {"semantic"}, source : {"user"}, text : {"a"},
                    created_at_utc : Timestamps]]

(* a caller that names the run names it for a write to the store, a write to
   the run's own file, or a call without input *)
DispatchInputs ==
    [tool_name : {"memory.write"},
     tool_input : {i \in MemoryWriteInputs : ~IsRunFile(i.store_path)}, run_id : {None}]
    \cup [tool_name : {"memory.write"},
          tool_input : {i \in MemoryWriteInputs :
                           /\ i.record.text = "a"
                           /\ i.store_path = "mem.jsonl" \/ IsRunFile(i.store_path)}
                       \cup {NoToolInput},
          run_id : CallerRunIds]
    \cup [tool_name : {" memory.write "},
          tool_input : {i \in MemoryWriteInputs :
                           i.record.text = "a" /\ i.store_path = "mem.jsonl"},
          run_id : {None}]
    \cup [tool_name : {"artifact.sanitize"},
          tool_input : {i \in SanitizeInputs : i.raw_artifact_id # MissingId}
                       \cup {UnserializablePayload, NotADict},
          run_id : {None}]
    \cup [tool_name : {"not.wired", "  "}, tool_input : {NoToolInput}, run_id : {None}]

(* the work tree before and after the tool ran *)
GitRuns ==
    {<<g, g>> : g \in {h \in GitStates : h.porcelain = <<>>}}
    \cup {<<g, h>> \in GitStates \X GitStates :
             g.branch = "main" /\ g.porcelain = <<>> /\ h.branch = "main" /\ h.porcelain # <<>>}

DispatchNext ==
    \/ \E inp \in {i \in IngestInputs : i.artifact_id = None} : ArtifactIngest(inp)
    \/ /\ DispatchCount < MaxDispatches
       /\ \E inp \in DispatchInputs, g \in GitRuns : Dispatch(inp, g[1], g[2])

SpecDispatch == Init /\ [][DispatchNext]_vars


----------------------------------------------------------------------------
(* _build_plain_tar as a function of what the file system shows: a tree maps
   each archive name to the stat fields and bytes of the file, and a run sees
   the tree through a directory listing whose order the platform chooses *)
ArcNames == {".adam_os/artifacts/raw/a.txt", ".adam_os/artifacts/raw/b.txt"}

(* the archive names in the order of Python's string comparison *)
ArcOrder == <<".adam_os/artifacts/raw/a.txt", ".adam_os/artifacts/raw/b.txt">>

ArcRank(name) == CHOOSE i \in 1..Len(ArcOrder) : ArcOrder[i] = name

FileBytes == {<<1>>, <<1, 2>>}

(* st_mode of a regular file: 0o100644 and 0o100600 *)
FileModes == {33188, 33152}

(* modification time, owner and group of a file *)
FileOwnerships == {[mtime |-> 1, uid |-> 0, gid |-> 0], [mtime |-> 2, uid |-> 1000, gid |-> 100]}

FileStats == [bytes : FileBytes, st_mode : FileModes, owned : FileOwnerships]

Trees == UNION {[names -> FileStats] : names \in SUBSET ArcNames}

(* what a run brings with it: the wall clock, the invoking user and whether
   its directory listing comes back in reverse *)
RunEnvs == {[clock |-> 1, user |-> "alice", reversed |-> FALSE],
            [clock |-> 2, user |-> "bob", reversed |-> TRUE]}

(* rglob: the files of the tree in the order the platform lists them *)
Listing(tree, env) ==
    LET up == SelectSeq(ArcOrder, LAMBDA n : n \in DOMAIN tree)
    IN IF env.reversed THEN [i \in 1..Len(up) |-> up[Len(up) + 1 - i]] ELSE up

(* items.sort(key=arcname) *)
SortByArcname(items) ==
    CHOOSE s \in [1..Len(items) -> {items[i] : i \in 1..Len(items)}] :
        /\ \A i \in 1..Len(items) : \E j \in 1..Len(items) : s[j] = items[i]
        /\ \A i, j \in 1..Len(items) : i < j => ArcRank(s[i]) <= ArcRank(s[j])

_collect_files(tree, env) == SortByArcname(Listing(tree, env))

(* a tar member that carries the file's own times and owner *)
AddFileAsFound(tree, arcname) ==
    LET st == tree[arcname] IN
    [name |-> arcname, size |-> Len(st.bytes), mtime |-> st.owned.mtime,
     uid |-> st.owned.uid, gid |-> st.owned.gid, uname |-> "", gname |-> "",
     mode |-> st.st_mode % 512, data |-> st.bytes]

(* _add_file_deterministic: times and owner are zeroed, the permission bits
   are the file's own *)
_add_file_deterministic(tree, arcname) ==
    LET st == tree[arcname] IN
    [name |-> arcname, size |-> Len(st.bytes), mtime |-> 0, uid |-> 0, gid |-> 0,
     uname |-> "", gname |-> "", mode |-> st.st_mode % 512, data |-> st.bytes]

_build_plain_tar(tree, env) ==
    LET items == _collect_files(tree, env) IN
    [fmt |-> "tar",
     members |-> [i \in 1..Len(items) |-> _add_file_deterministic(tree, items[i])]]

InitTar ==
    /\ files = <<>>
    /\ dirs = {}
    /\ artReg = <<>>
    /\ infReg = <<>>
    /\ issued = {}
    /\ providerCalls = {}
    /\ gateLog = {}
    /\ edited = {}
    /\ ledger = <<>>
    /\ memStore = <<>>
    /\ procs = <<>>
    /\ written = <<>>
    /\ inst = NoOut
    /\ \E one \in Trees, other \in Trees :
          last = [tool |-> "none", input |-> [one |-> one, other |-> other],
                  ok |-> TRUE, err |-> "", out |-> NoOut]

(* two runs, each over its own tree and in its own environment *)
BuildPlainTars ==
    /\ last.tool = "none"
    /\ \E env_one \in RunEnvs, env_other \in RunEnvs :
          last' = [tool |-> "_build_plain_tar",
                   input |-> [one |-> last.input.one, other |-> last.input.other,
                              env_one |-> env_one, env_other |-> env_other],
                   ok |-> TRUE, err |-> "",
                   out |-> [one |-> Sha256(_build_plain_tar(last.input.one, env_one)),
                            other |-> Sha256(_build_plain_tar(last.input.other, env_other))]]
    /\ UNCHANGED <<files, dirs, artReg, infReg, issued, providerCalls, gateLog, edited,
                   ledger, memStore>>
    /\ UNCHANGED conc

SpecTar == InitTar /\ [][BuildPlainTars]_vars

----------------------------------------------------------------------------
(* The first four stages with output ids the caller chooses: one raw text is
   ingested, and each later stage is called with its default output id or
   with the id of an artifact its input directory already holds *)
ChosenIdsNext ==
    \/ /\ IdsIn(RAW_DIR) = {}
       /\ \E inp \in {i \in IngestInputs : i.artifact_id # None /\ Len(i.content) = 1} :
              ArtifactIngest(inp)
    \/ \E inp \in [created_at_utc : Timestamps, media_type : {None},
                   raw_artifact_id : IdsIn(RAW_DIR),
                   sanitized_artifact_id : {None} \cup IdsIn(RAW_DIR)] :
           ArtifactSanitize(inp)
    \/ \E inp \in [created_at_utc : Timestamps, media_type : {None},
                   sanitized_artifact_id : IdsIn(SANITIZED_DIR),
                   canon_artifact_id : {None} \cup IdsIn(SANITIZED_DIR)] :
           ArtifactCanonSelect(inp)
    \/ \E inp \in [created_at_utc : Timestamps, media_type : {None},
                   canon_artifact_id : IdsIn(BUNDLES_DIR),
                   bundle_artifact_id : {None} \cup IdsIn(BUNDLES_DIR)] :
           ArtifactBundleManifest(inp)

SpecChosenIds == Init /\ [][ChosenIdsNext]_vars

----------------------------------------------------------------------------
(* Canon selection over every raw text of up to MaxStatements statements: one
   raw artifact is ingested, sanitized and canon-selected under default ids *)
MaxStatements == 3
Statements == {"fact", "data", "maybe", "what"}
StatementTexts == UNION {[1..n -> Statements] : n \in 0..MaxStatements}

CanonNext ==
    \/ /\ IdsIn(RAW_DIR) = {}
       /\ \E inp \in [created_at_utc : Timestamps, content : StatementTexts,
                      media_type : {None}, artifact_id : CallerIds] :
              ArtifactIngest(inp)
    \/ \E inp \in SanitizeInputs : ArtifactSanitize(inp)
    \/ \E inp \in CanonSelectInputs : ArtifactCanonSelect(inp)

SpecCanon == Init /\ [][CanonNext]_vars

----------------------------------------------------------------------------
(* execute_tool on a freshly constructed LocalExecutor, without the
   dispatcher: the tool named by the caller runs on the store *)

CANONICAL_TOOL_NAMES ==
    {"repo.list_files", "repo.read_text", "memory.write", "artifact.ingest",
     "artifact.sanitize", "artifact.canon_select", "artifact.bundle_manifest",
     "artifact.build_spec", "artifact.work_order_emit", "artifact.snapshot_export",
     "inference.request_emit", "inference.response_emit", "inference.error_emit",
     "inference.receipt_emit", "inference.execute", "inference.replay",
     "inference.provider_select"}

ExecuteToolCall(tool_name, tool_input) ==
    LET ex == ExecuteTool(Strip(tool_name), tool_input)
    IN /\ Len(ex.store.artReg) <= MaxArtRecords
       /\ \A p \in DOMAIN ex.memStore : Len(ex.memStore[p]) <= MaxMemRecords
       /\ files' = ex.store.files
       /\ dirs' = ex.store.dirs
       /\ artReg' = ex.store.artReg
       /\ infReg' = ex.store.infReg
       /\ memStore' = ex.memStore
       /\ last' = [tool |-> "execute_tool",
                   input |-> [tool_name |-> tool_name, tool_input |-> tool_input],
                   ok |-> ex.ok, err |-> ex.err, out |-> ex.out, found |-> ex.found]
       /\ UNCHANGED <<issued, providerCalls, gateLog, edited, ledger>>
       /\ UNCHANGED conc

ExecutorInputs ==
    [tool_name : CANONICAL_TOOL_NAMES \cup {"not.wired", "  "}, tool_input : {EmptyPayload}]
    \cup [tool_name : {"artifact.sanitize"}, tool_input : SanitizeInputs]
    \cup [tool_name : {"memory.write", " memory.write "},
          tool_input : {i \in MemoryWriteInputs : i.store_path = "mem.jsonl"}]

ExecutorNext ==
    \/ \E inp \in {i \in IngestInputs : i.artifact_id = None} : ArtifactIngest(inp)
    \/ \E inp \in ExecutorInputs : ExecuteToolCall(inp.tool_name, inp.tool_input)

SpecExecutor == Init /\ [][ExecutorNext]_vars

----------------------------------------------------------------------------
(* Concurrent appends to a registry file.  Each writer runs registry.append
   on its own record; a step is what one writer does up to and including its
   next write to the shared file.  The handle is a buffered text handle opened
   with mode "a": what is written to it stays in the handle until it holds
   CHUNK_SIZE bytes or the handle is closed, and each hand-over to the OS
   appends its bytes to the file in one piece. *)

MaxWriters == 2

Writers == 1..MaxWriters

CHUNK_SIZE == 2

LineSizes == {1, CHUNK_SIZE}

REGISTRY_PATHS == {"artifacts/artifact_registry.jsonl", "inference/inference_registry.jsonl"}

Newline == [nl |-> TRUE]

(* canonical_dumps(record.to_dict()) of the record of writer w, byte by byte *)
canonical_line(w, size) == [i \in 1..size |-> [rec |-> w, byte |-> i]]

InitAppend ==
    /\ files = <<>>
    /\ dirs = {}
    /\ artReg = <<>>
    /\ infReg = <<>>
    /\ issued = {}
    /\ providerCalls = {}
    /\ gateLog = {}
    /\ edited = {}
    /\ ledger = <<>>
    /\ memStore = <<>>
    /\ last = [tool |-> "none", input |-> NoOut, ok |-> TRUE, err |-> "", out |-> NoOut]
    /\ procs \in [Writers -> [pc : {"open"}, path : REGISTRY_PATHS, size : LineSizes,
                               pending : {<<>>}]]
    /\ written = [p \in REGISTRY_PATHS |-> <<>>]
    /\ inst = NoOut

(* f.write(text) on the handle of writer w: the bytes the OS receives now and
   the bytes that stay in the handle *)
HandleWrite(pending, text) ==
    IF Len(pending \o text) >= CHUNK_SIZE
    THEN [flushed |-> pending \o text, pending |-> <<>>]
    ELSE [flushed |-> <<>>, pending |-> pending \o text]

AppendStep(w, pc, handle) ==
    /\ procs' = [procs EXCEPT ![w].pc = pc, ![w].pending = handle.pending]
    /\ written' = [written EXCEPT ![procs[w].path] = @ \o handle.flushed]
    /\ UNCHANGED <<files, dirs, artReg, infReg, issued, providerCalls, gateLog, edited,
                   ledger, memStore, last, inst>>

(* record.validate(); ensure_dirs(); line = canonical_dumps(..); open("a") *)
AppendOpen(w) ==
    /\ procs[w].pc = "open"
    /\ AppendStep(w, "write_line", [flushed |-> <<>>, pending |-> <<>>])

(* f.write(line) *)
AppendWriteLine(w) ==
    /\ procs[w].pc = "write_line"
    /\ AppendStep(w, "write_newline",
                  HandleWrite(procs[w].pending, canonical_line(w, procs[w].size)))

(* f.write("\n") *)
AppendWriteNewline(w) ==
    /\ procs[w].pc = "write_newline"
    /\ AppendStep(w, "close", HandleWrite(procs[w].pending, <<Newline>>))

(* leaving the with block closes the handle, which hands over what it holds *)
AppendClose(w) ==
    /\ procs[w].pc = "close"
    /\ AppendStep(w, "done", [flushed |-> procs[w].pending, pending |-> <<>>])

AppendNext ==
    \E w \in Writers :
        \/ AppendOpen(w)
        \/ AppendWriteLine(w)
        \/ AppendWriteNewline(w)
        \/ AppendClose(w)

SpecAppend == InitAppend /\ [][AppendNext]_vars


----------------------------------------------------------------------------
(* Threads calling event() on one RunLedger instance.  A step is what one
   thread does between two points where another thread can run: taking the
   lock, the increment of _seq, the append to the run file, leaving the
   lock. *)

MaxThreads == 2

MaxCalls == 2

Threads == 1..MaxThreads

SHARED_RUN_ID == "r"

EventKinds == {"tick", "  "}

InitEvents ==
    /\ files = <<>>
    /\ dirs = {RUN_DIR}
    /\ artReg = <<>>
    /\ infReg = <<>>
    /\ issued = {}
    /\ providerCalls = {}
    /\ gateLog = {}
    /\ edited = {}
    /\ ledger = <<>>
    /\ memStore = <<>>
    /\ last = [tool |-> "none", input |-> NoOut, ok |-> TRUE, err |-> "", out |-> NoOut]
    /\ procs = [t \in Threads |-> [pc |-> "idle", calls |-> 0, kind |-> "", seq |-> 0,
                                     returned |-> <<>>, raised |-> 0]]
    /\ written = <<>>
    /\ inst = [run_id |-> SHARED_RUN_ID, seq |-> 0, lock |-> 0]

EventFrame == UNCHANGED <<files, dirs, artReg, infReg, issued, providerCalls, gateLog, edited, memStore, last, written>>

(* a thread that takes the lock whoever holds it *)
LockNotHonoured(t) == TRUE

(* with self._lock: the thread goes on only while no thread holds the lock *)
LockIsFree(t) == inst.lock = 0

(* event(kind, data): the check of kind, then the payload without its seq *)
EventCall(t, kind) ==
    /\ procs[t].pc = "idle"
    /\ procs[t].calls < MaxCalls
    /\ procs' = IF Strip(kind) = ""
                THEN [procs EXCEPT ![t].calls = @ + 1, ![t].raised = @ + 1]
                ELSE [procs EXCEPT ![t].calls = @ + 1, ![t].pc = "acquire",
                                   ![t].kind = Strip(kind)]
    /\ UNCHANGED <<ledger, inst>>
    /\ EventFrame

EventAcquire(t) ==
    /\ procs[t].pc = "acquire"
    /\ LockIsFree(t)
    /\ inst' = [inst EXCEPT !.lock = t]
    /\ procs' = [procs EXCEPT ![t].pc = "increment"]
    /\ UNCHANGED ledger
    /\ EventFrame

(* self._seq += 1; payload["seq"] = self._seq *)
EventIncrement(t) ==
    /\ procs[t].pc = "increment"
    /\ inst' = [inst EXCEPT !.seq = @ + 1]
    /\ procs' = [procs EXCEPT ![t].pc = "append", ![t].seq = inst.seq + 1]
    /\ UNCHANGED ledger
    /\ EventFrame

(* _append_text_atomic(run_file, line): one os.write on an O_APPEND descriptor *)
EventAppend(t) ==
    /\ procs[t].pc = "append"
    /\ ledger' = [r \in DOMAIN ledger \cup {inst.run_id} |->
                     IF r = inst.run_id
                     THEN RunLines(ledger, r)
                          \o <<[seq |-> procs[t].seq, kind |-> procs[t].kind,
                                data |-> [thread |-> t]]>>
                     ELSE ledger[r]]
    /\ procs' = [procs EXCEPT ![t].pc = "release"]
    /\ UNCHANGED inst
    /\ EventFrame

(* leaving the with block; return payload *)
EventRelease(t) ==
    /\ procs[t].pc = "release"
    /\ inst' = [inst EXCEPT !.lock = IF @ = t THEN 0 ELSE @]
    /\ procs' = [procs EXCEPT ![t].pc = "idle", ![t].returned = @ \o <<procs[t].seq>>]
    /\ UNCHANGED ledger
    /\ EventFrame

EventsNext ==
    \E t \in Threads :
        \/ \E kind \in EventKinds : EventCall(t, kind)
        \/ EventAcquire(t)
        \/ EventIncrement(t)
        \/ EventAppend(t)
        \/ EventRelease(t)

SpecEvents == InitEvents /\ [][EventsNext]_vars


(* The whole tool surface over one store: both registries, one raw text under
   its default id, one request *)
Next ==
    \/ \E inp \in {i \in IngestInputs : i.artifact_id = None} : ArtifactIngest(inp)
    \/ \E inp \in {i \in SanitizeInputs : i.raw_artifact_id # MissingId} :
           ArtifactSanitize(inp)
    \/ \E inp \in CanonSelectInputs : ArtifactCanonSelect(inp)
    \/ \E inp \in {i \in BundleManifestInputs : i.canon_artifact_id # MissingId} :
           ArtifactBundleManifest(inp)
    \/ \E inp \in BuildSpecInputs : ArtifactBuildSpec(inp)
    \/ \E inp \in {i \in WorkOrderEmitInputs : i.media_type = None} :
           ArtifactWorkOrderEmit(inp)
    \/ \E inp \in SnapshotExportInputs : ArtifactSnapshotExport(inp, {"none", "openssl"})
    \/ \E inp \in {GoodRequest} : InferenceRequestEmit(inp)
    \/ \E inp \in {i \in ResponseEmitInputs : i.request_id # MissingId} :
           InferenceResponseEmit(inp)
    \/ \E inp \in {i \in ErrorEmitInputs : i.request_id # MissingId} :
           InferenceErrorEmit(inp)
    \/ \E inp \in ReceiptEmitInputs : InferenceReceiptEmit(inp)
    \/ \E inp \in {i \in ExecuteInputs : i.request_id # MissingId},
          env \in ProviderOutcomes : InferenceExecute(inp, env)
    \/ \E inp \in ReplayInputs : InferenceReplay(inp)

Spec == Init /\ [][Next]_vars
----------------------------------------------------------------------------
(* Properties *)

IsPrefix(old, new) ==
    /\ Len(old) <= Len(new)
    /\ \A i \in 1..Len(old) : new[i] = old[i]

(* the file a record refers to: each tool writes <dir>/<artifact_id><ext> *)
RecordPath(rec) ==
    CASE rec.kind = "RAW" -> PathOf(RAW_DIR, rec.artifact_id, ".txt")
      [] rec.kind = "SANITIZED" -> PathOf(SANITIZED_DIR, rec.artifact_id, ".jsonl")
      [] rec.kind = "BUNDLE_MANIFEST" ->
             PathOf(BUNDLES_DIR, rec.artifact_id,
                    IF rec.notes = "artifact.canon_select" THEN ".jsonl" ELSE ".json")
      [] rec.kind = "BUILD_SPEC" -> PathOf(SPECS_DIR, rec.artifact_id, ".json")
      [] rec.kind = "WORK_ORDER" -> PathOf(WORK_ORDERS_DIR, rec.artifact_id, ".json")
      [] rec.kind = "SNAPSHOT_ARCHIVE" ->
             PathOf(SnapshotDir(rec.artifact_id), "snapshot", ".enc")
      [] rec.kind = "INFERENCE_REQUEST" -> PathOf(REQUESTS_DIR, rec.artifact_id, ".json")
      [] rec.kind = "INFERENCE_RESPONSE" -> PathOf(RESPONSES_DIR, rec.artifact_id, ".json")
      [] rec.kind = "INFERENCE_ERROR" -> PathOf(ERRORS_DIR, rec.artifact_id, ".json")
      [] rec.kind = "INFERENCE_RECEIPT" -> PathOf(RECEIPTS_DIR, rec.artifact_id, ".json")

ReceiptCount(reg) ==
    Cardinality({i \in 1..Len(reg) : reg[i].kind = "INFERENCE_RECEIPT"})

RequestsDirContent(fs) == [p \in {q \in DOMAIN fs : q[1] = REQUESTS_DIR} |-> fs[p]]

(* C1: every step of every tool leaves each registry a prefix of what it
   becomes: no line is removed and no line already written changes. *)
C1_RegistriesOnlyGrow ==
    [][IsPrefix(artReg, artReg') /\ IsPrefix(infReg, infReg')]_vars

C1_Witness ==
    /\ Len(artReg) >= 2
    /\ Len(infReg) >= 2
    /\ last.ok

(* C2: no registry holds two records with the same (artifact_id, kind). *)
C2_NoDuplicatePairs ==
    \A reg \in {artReg, infReg} :
        \A i, j \in 1..Len(reg) :
            (reg[i].artifact_id = reg[j].artifact_id /\ reg[i].kind = reg[j].kind)
                => i = j

(* C3: a stage called again with the input of a call that has just succeeded
   changes no file and no registry. *)
C3_SecondCallIsNoOp ==
    [][(/\ last.ok
        /\ last.tool # "none"
        /\ last'.tool = last.tool
        /\ last'.input = last.input)
       => (files' = files /\ artReg' = artReg /\ infReg' = infReg)]_vars

(* C4: for every record of either registry the file it refers to exists and
   hashes to the record's sha256. *)
C4_RecordHashMatchesFile ==
    \A reg \in {artReg, infReg} :
        \A i \in 1..Len(reg) :
            /\ FileExists(files, RecordPath(reg[i]))
            /\ sha256_file(files, RecordPath(reg[i])) = reg[i].sha256

(* C5: every parent id of a record is the artifact_id of a record on an
   earlier line of the same registry. *)
C5_ParentsAppearEarlier ==
    \A reg \in {artReg, infReg} :
        \A i \in 1..Len(reg) :
            \A k \in 1..Len(reg[i].parent_artifact_ids) :
                \E j \in 1..(i - 1) :
                    reg[j].artifact_id = reg[i].parent_artifact_ids[k]

(* C6: every inference.execute call adds exactly one INFERENCE_RECEIPT record. *)
C6_ExecuteAddsOneReceipt ==
    [][last'.tool = "inference.execute"
       => ReceiptCount(infReg') = ReceiptCount(infReg) + 1]_vars

(* C7: when inference.execute has returned ok = true for request R, the file
   R--receipt names the response R--response as its result. *)
C7_OkReceiptNamesResponse ==
    (/\ last.tool = "inference.execute"
     /\ last.ok
     /\ last.out.ok)
    => LET receipt_path == PathOf(RECEIPTS_DIR, last.input.request_id \o "--receipt", ".json")
       IN /\ FileExists(files, receipt_path)
          /\ files[receipt_path].result.kind = "response"
          /\ files[receipt_path].result.artifact_id = last.input.request_id \o "--response"

(* C8: a request_emit call with a model outside its provider's allowlist, a
   temperature outside [0.0, 1.0] or max_tokens above the injected cap raises
   and leaves the requests directory and the inference registry as they were. *)
C8_ViolatesPolicy(inp) ==
    \/ (inp.provider = "openai" /\ inp.model \notin {"gpt-4o", "gpt-4.1", "gpt-4.1-mini"})
    \/ (inp.provider = "anthropic"
        /\ inp.model \notin {"claude-3-opus", "claude-3-sonnet", "claude-3-haiku"})
    \/ inp.temperature.v < 0
    \/ inp.temperature.v > 10
    \/ inp.max_tokens.v > inp.provider_max_tokens_cap.v

C8_PolicyRejectWritesNothing ==
    [][(last'.tool = "inference.request_emit" /\ C8_ViolatesPolicy(last'.input))
       => (/\ ~last'.ok
           /\ RequestsDirContent(files') = RequestsDirContent(files)
           /\ dirs' = dirs
           /\ infReg' = infReg)]_vars

C8_Witness ==
    /\ last.tool = "inference.request_emit"
    /\ C8_ViolatesPolicy(last.input)
    /\ ~last.ok
    /\ Len(infReg) >= 1
    /\ last.input.request_id \notin {p[2] : p \in {q \in DOMAIN files : q[1] = REQUESTS_DIR}}

(* C9: every provider call execute has made carries a provider, model,
   temperature and max_tokens that the policy gate accepted: an allowlisted
   pair, a temperature in [0.0, 1.0] and max_tokens within the cap injected
   when the gate ran. *)
C9_ProviderCallsPassedGate ==
    \A c \in providerCalls :
        /\ \/ (c.provider = "openai" /\ c.model \in {"gpt-4o", "gpt-4.1", "gpt-4.1-mini"})
           \/ (c.provider = "anthropic"
               /\ c.model \in {"claude-3-opus", "claude-3-sonnet", "claude-3-haiku"})
        /\ c.temperature >= 0
        /\ c.temperature <= 10
        /\ \E g \in gateLog :
              /\ g.provider = c.provider
              /\ g.model = c.model
              /\ g.temperature = c.temperature
              /\ g.max_tokens = c.max_tokens
              /\ c.max_tokens <= g.provider_max_tokens_cap

C9_Witness ==
    /\ last.tool = "inference.execute"
    /\ last.ok
    /\ last.out.ok
    /\ providerCalls # {}

(* C10: a replay call, accepted or rejected, changes no file, no directory and
   neither registry. *)
C10_ReplayChangesNothing ==
    [][last'.tool = "inference.replay"
       => (files' = files /\ dirs' = dirs /\ artReg' = artReg /\ infReg' = infReg)]_vars

C10_Witness ==
    /\ last.tool = "inference.replay"
    /\ ~last.ok
    /\ last.err = "replay_reject: receipt_hash mismatch"
    /\ artReg # <<>>
    /\ infReg # <<>>

----------------------------------------------------------------------------
(* The three files a receipt stands for: itself, its request, its result *)
ReceiptFiles(id) ==
    LET receipt_path == PathOf(RECEIPTS_DIR, id, ".json")
        obj == files[receipt_path]
    IN {receipt_path,
        PathOf(REQUESTS_DIR, obj.request_id, ".json"),
        PathOf(IF obj.result.kind = "response" THEN RESPONSES_DIR ELSE ERRORS_DIR,
               obj.result.artifact_id, ".json")}

ReplayOk(id) == ReplayOutcome([receipt_id |-> id]).ok

(* C11: a receipt can be replayed as soon as receipt_emit has written it, and
   from then on a step keeps replay(R) = replay_ok if and only if it leaves the
   bytes of R's request file, result file and receipt file as they were; any
   change to, or removal of, one of them makes replay fail. *)
C11_ReplayOkIffBytesUnchanged ==
    [][/\ \A id \in IdsIn(RECEIPTS_DIR)' \ IdsIn(RECEIPTS_DIR) :
              last'.tool \in {"inference.receipt_emit", "inference.execute"}
                  => ReplayOk(id)'
       /\ \A id \in IdsIn(RECEIPTS_DIR) :
              ReplayOk(id) =>
                  (ReplayOk(id)' <=>
                      \A p \in ReceiptFiles(id) :
                          FileExists(files', p) /\ files'[p] = files[p])]_vars

REPLAY_REJECTS ==
    {"replay_reject: receipt file missing", "replay_reject: invalid receipt kind",
     "replay_reject: invalid stored receipt_hash", "replay_reject: invalid request_id",
     "replay_reject: invalid result.kind", "replay_reject: invalid result.artifact_id",
     "replay_reject: request file missing", "replay_reject: result file missing",
     "replay_reject: request sha mismatch", "replay_reject: result sha mismatch",
     "replay_reject: receipt_hash mismatch"}

(* the last step replayed a receipt whose file had one field changed from
   outside, nothing else having been edited *)
ReplayedAfterFieldEdit(fields) ==
    /\ last.tool = "inference.replay"
    /\ \E e \in edited :
          /\ edited = {e}
          /\ e.how = "field"
          /\ e.field \in fields
          /\ e.path = PathOf(RECEIPTS_DIR, last.input.receipt_id, ".json")

ReceiptFields == {e.field : e \in ReceiptEdits}

(* C12 as stated: after changing the value of any one field of a valid receipt
   file, replay of that receipt raises "replay_reject: receipt_hash mismatch". *)
C12_AnyFieldEditIsHashMismatch ==
    ReplayedAfterFieldEdit(ReceiptFields)
        => (~last.ok /\ last.err = "replay_reject: receipt_hash mismatch")

(* C12 amended: after changing the value of any one field of a valid receipt
   file, replay of that receipt raises a replay_reject error; the message is
   "replay_reject: receipt_hash mismatch" when the field is one that replay
   reads only through the receipt hash (created_at_utc, request_hash,
   snapshot_hash, provider, model). *)
C12_FieldEditIsRejected ==
    /\ ReplayedAfterFieldEdit(ReceiptFields)
           => (~last.ok /\ last.err \in REPLAY_REJECTS)
    /\ ReplayedAfterFieldEdit({"created_at_utc", "request_hash", "snapshot_hash",
                               "provider", "model"})
           => (~last.ok /\ last.err = "replay_reject: receipt_hash mismatch")

C12_Witness ==
    /\ ReplayedAfterFieldEdit({"model"})
    /\ last.err = "replay_reject: receipt_hash mismatch"

----------------------------------------------------------------------------
(* the result file a receipt_emit input names, when it names exactly one *)
ReceiptInputResultPath(inp) ==
    IF inp.response_id # None
    THEN PathOf(RESPONSES_DIR, inp.response_id, ".json")
    ELSE PathOf(ERRORS_DIR, inp.error_id, ".json")

ReceiptInputRefused(inp) ==
    \/ inp.response_id # None /\ inp.error_id # None
    \/ inp.response_id = None /\ inp.error_id = None
    \/ ~FileExists(files, ReceiptInputResultPath(inp))

(* C13: receipt_emit fails, writing no receipt file (no file at all) and
   appending no record, when both response_id and error_id are given, when
   neither is given, or when the referenced result file is not on disk. *)
C13_ReceiptEmitFailsClosed ==
    [][(last'.tool = "inference.receipt_emit" /\ ReceiptInputRefused(last'.input))
          => (~last'.ok /\ files' = files /\ dirs' = dirs /\ infReg' = infReg)]_vars

C13_Witness ==
    /\ last.tool = "inference.receipt_emit"
    /\ ~last.ok
    /\ last.input.response_id = MissingId
    /\ last.err = "receipt_emit: missing response artifact file"
    /\ infReg # <<>>

----------------------------------------------------------------------------
(* what the claim asks of an emitter input: both hashes 64 hexadecimal
   characters, and the request artifact on disk *)
EmitterInputValid(inp) ==
    /\ IsHex64(inp.request_hash)
    /\ IsHex64(inp.snapshot_hash)
    /\ FileExists(files, PathOf(REQUESTS_DIR, inp.request_id, ".json"))

(* C14: response_emit and error_emit write a file and append a record only if
   request_hash and snapshot_hash are each exactly 64 hexadecimal characters and
   the request artifact named by request_id exists; otherwise they fail and
   write nothing. *)
C14_EmittersValidateStrictly ==
    [][(last'.tool \in {"inference.response_emit", "inference.error_emit"}
        /\ ~EmitterInputValid(last'.input))
          => (~last'.ok /\ files' = files /\ infReg' = infReg)]_vars

----------------------------------------------------------------------------
RecordCount(reg, artifact_id, kind) ==
    Cardinality({i \in 1..Len(reg) :
                    reg[i].artifact_id = artifact_id /\ reg[i].kind = kind})

(* C15: for a request with provider "anthropic" and an allowlisted model, whose
   provider call fails, execute returns ok=false having produced exactly one
   INFERENCE_ERROR artifact with error_type "provider_http_error" and one
   INFERENCE_RECEIPT whose result.kind is "error". *)
C15_AnthropicFailureIsProviderHttpError ==
    (/\ last.tool = "inference.execute"
     /\ last.ok
     /\ RequestFile(last.input.request_id).provider = "anthropic"
     /\ RequestFile(last.input.request_id).model \in ANTHROPIC_ALLOWED_MODELS)
    => LET R == last.input.request_id
           error_path == PathOf(ERRORS_DIR, R \o "--error", ".json")
           receipt_path == PathOf(RECEIPTS_DIR, R \o "--receipt", ".json")
       IN /\ ~last.out.ok
          /\ FileExists(files, error_path)
          /\ files[error_path].error_type = "provider_http_error"
          /\ RecordCount(infReg, R \o "--error", "INFERENCE_ERROR") = 1
          /\ FileExists(files, receipt_path)
          /\ files[receipt_path].result.kind = "error"
          /\ RecordCount(infReg, R \o "--receipt", "INFERENCE_RECEIPT") = 1

----------------------------------------------------------------------------
(* C16: whenever snapshot_export returns successfully for snapshot id S, the
   artifact registry holds a SNAPSHOT_ARCHIVE record for S and a
   SNAPSHOT_MANIFEST record for S--manifest. *)
C16_SnapshotRegistersBoth ==
    (last.tool = "artifact.snapshot_export" /\ last.ok)
    => LET S == last.out.artifact_id
       IN /\ RegistryHas(artReg, S, "SNAPSHOT_ARCHIVE")
          /\ RegistryHas(artReg, S \o "--manifest", "SNAPSHOT_MANIFEST")

(* C17: when a snapshot_export call has ended, by returning or by raising at
   any step, no temporary plaintext archive snapshot.tar.tmp is on disk. *)
C17_NoPlaintextTarLeftBehind ==
    last.tool = "artifact.snapshot_export"
        => \A p \in DOMAIN files : ~(p[2] = "snapshot.tar" /\ p[3] = ".tmp")

C17_Witness ==
    /\ last.tool = "artifact.snapshot_export"
    /\ ~last.ok
    /\ last.err = "openssl enc failed"
    /\ SnapshotDir(last.input.work_order_artifact_id \o "--snapshot") \in dirs

(* C18 *)
OUTSIDE_EDITS == {"outside.tamper", "outside.delete", "outside.reformat",
                  "outside.tamper_field"}

IngestTargetsOtherContent(inp) ==
    /\ inp.artifact_id # None
    /\ FileExists(files, PathOf(RAW_DIR, inp.artifact_id, ".txt"))
    /\ sha256_file(files, PathOf(RAW_DIR, inp.artifact_id, ".txt"))
           # Sha256([fmt |-> "text", text |-> inp.content])

(* C18: a stage call never changes the bytes of a file that was already there,
   and an ingest whose content differs from the bytes already stored under
   its target path fails *)
C18_ConflictingWriteIsRefused ==
    [][last'.tool \notin OUTSIDE_EDITS =>
         /\ \A p \in DOMAIN files : FileExists(files', p) => files'[p] = files[p]
         /\ (last'.tool = "artifact.ingest" /\ IngestTargetsOtherContent(last'.input))
                => ~last'.ok]_vars

(* C19 *)
ParentIdOf(tool, inp) ==
    CASE tool = "artifact.sanitize" -> inp.raw_artifact_id
      [] tool = "artifact.canon_select" -> inp.sanitized_artifact_id
      [] tool = "artifact.bundle_manifest" -> inp.canon_artifact_id
      [] tool = "artifact.build_spec" -> inp.bundle_artifact_id
      [] tool = "artifact.work_order_emit" -> inp.build_spec_artifact_id
      [] tool = "artifact.snapshot_export" -> inp.work_order_artifact_id

STAGES_WITH_PARENT ==
    {"artifact.sanitize", "artifact.canon_select", "artifact.bundle_manifest",
     "artifact.build_spec", "artifact.work_order_emit", "artifact.snapshot_export"}

(* the id names no artifact: no file is stored under it, no record carries it *)
NamesNothing(id) ==
    /\ \A p \in DOMAIN files : p[2] # id
    /\ \A i \in 1..Len(artReg) : artReg[i].artifact_id # id

(* C19: a call of sanitize, canon_select, bundle_manifest, build_spec,
   work_order_emit or snapshot_export whose parent id names no artifact fails,
   writes no file and appends no registry record *)
C19_MissingParentFailsClosed ==
    [][(/\ last'.tool \in STAGES_WITH_PARENT
        /\ NamesNothing(ParentIdOf(last'.tool, last'.input)))
          => /\ ~last'.ok
             /\ files' = files
             /\ artReg' = artReg]_vars

(* C20 *)
DISPATCH == "dispatch"

(* the kinds of the lines the last step appended to the run file of run_id *)
AppendedKinds(run_id) ==
    LET before == EventsOf(RunLines(ledger, run_id))
        after == EventsOf(RunLines(ledger', run_id))
    IN [i \in 1..(Len(after) - Len(before)) |-> after[Len(before) + i].kind]

MemoryWriteSucceeded(l) ==
    /\ Strip(l.input.tool_name) = "memory.write"
    /\ l.out.ok

OtherRunsUntouched(run_id) ==
    \A r \in DOMAIN ledger' :
        r # run_id => EventsOf(ledger'[r]) = EventsOf(RunLines(ledger, r))

(* C20 as stated: every dispatcher invocation appends run.start,
   trust.pre_snapshot, tool.result, memory.write (exactly when a memory-write
   tool succeeded), trust.post_snapshot, trust.classification, run.end, in
   this order *)
C20_LedgerOrderAsStated ==
    [][last'.tool = DISPATCH =>
         \E run_id \in MintedRunIds \cup CallerRunIds :
            /\ OtherRunsUntouched(run_id)
            /\ AppendedKinds(run_id) =
                  <<"run.start", "trust.pre_snapshot", "tool.result">>
                  \o (IF last'.ok /\ MemoryWriteSucceeded(last')
                      THEN <<"memory.write">> ELSE <<>>)
                  \o <<"trust.post_snapshot", "trust.classification", "run.end">>]_vars

(* C20 amended: every dispatcher invocation that gets past request validation
   and the first ledger write appends run.start, trust.pre_snapshot,
   memory.write (exactly when a memory-write tool succeeded),
   trust.post_snapshot, trust.classification, tool.result, run.end, in this
   order, to the run file of its run id and to no other; an invocation that
   raises appends nothing *)
C20_LedgerOrder ==
    [][last'.tool = DISPATCH =>
         IF last'.ok
         THEN /\ OtherRunsUntouched(last'.out.run_id)
              /\ AppendedKinds(last'.out.run_id) =
                     <<"run.start", "trust.pre_snapshot">>
                     \o (IF MemoryWriteSucceeded(last') THEN <<"memory.write">> ELSE <<>>)
                     \o <<"trust.post_snapshot", "trust.classification",
                          "tool.result", "run.end">>
         ELSE ledger' = ledger]_vars

C20_Witness ==
    /\ last.tool = DISPATCH
    /\ last.ok
    /\ MemoryWriteSucceeded(last)
    /\ LET events == EventsOf(ledger[last.out.run_id])
       IN /\ Len(events) = 13
          /\ events[5].kind = "tool.result"
          /\ ~events[5].data.ok
          /\ events[9].kind = "memory.write"

----------------------------------------------------------------------------
(* C21 *)
StrictlyIncreasingSeq(lines) ==
    \A i \in 1..(Len(lines) - 1) : lines[i].seq < lines[i + 1].seq

(* C21 as stated: in every run's ledger file the seq values of successive
   lines are strictly increasing, whatever the number of invocations *)
C21_SeqStrictlyIncreasingPerFile ==
    \A r \in DOMAIN ledger : StrictlyIncreasingSeq(EventsOf(ledger[r]))

(* C21 amended: the events one dispatcher invocation appends carry seq 1, 2,
   ..., n, so the seq values of the events of a ledger file are strictly
   increasing as long as its run_id was used by one invocation only *)
C21_SeqStrictlyIncreasingPerInvocation ==
    [][(last'.tool = DISPATCH /\ last'.ok) =>
          LET run_id == last'.out.run_id
              before == Len(EventsOf(RunLines(ledger, run_id)))
              after == EventsOf(ledger'[run_id])
          IN /\ \A i \in 1..(Len(after) - before) : after[before + i].seq = i
             /\ before = 0 => StrictlyIncreasingSeq(after)]_vars

C21_Witness ==
    /\ last.tool = DISPATCH
    /\ last.ok
    /\ last.input.run_id \in CallerRunIds
    /\ Len(EventsOf(ledger[last.out.run_id])) >= 12
    /\ EventsOf(ledger[last.out.run_id])[7].seq = 1

----------------------------------------------------------------------------
(* C22 *)
DispatchPayload(inp) ==
    IF inp.tool_input = NoToolInput THEN EmptyPayload ELSE inp.tool_input

(* the request gets as far as the tool *)
ReachesTool(inp) ==
    /\ Strip(inp.tool_name) # ""
    /\ inp.tool_input # NotADict
    /\ DispatchPayload(inp) # UnserializablePayload

AppendedEvents(run_id) ==
    LET before == EventsOf(RunLines(ledger, run_id))
        after == EventsOf(RunLines(ledger', run_id))
    IN [i \in 1..(Len(after) - Len(before)) |-> after[Len(before) + i]]

Appended(run_id, kind) ==
    {l \in {AppendedEvents(run_id)[i] : i \in 1..Len(AppendedEvents(run_id))} : l.kind = kind}

(* C22: when the tool raises (an unknown tool included) dispatch returns: the
   tool was invoked once, the run file gained tool.result with ok=false and
   the error text, a post snapshot and a classification, and the result has
   ok=false, the same error text, the run id and the number of events
   written *)
C22_ToolErrorIsCaught ==
    [][(/\ last'.tool = DISPATCH
        /\ ReachesTool(last'.input)
        /\ ~ExecuteTool(Strip(last'.input.tool_name), DispatchPayload(last'.input)).ok)
          => LET err == ExecuteTool(Strip(last'.input.tool_name),
                                    DispatchPayload(last'.input)).err
             IN /\ last'.ok
                /\ last'.executed = 1
                /\ last'.out.ok = FALSE
                /\ last'.out.error = err
                /\ last'.out.run_id \in DOMAIN ledger'
                /\ last'.input.run_id # None => last'.out.run_id = last'.input.run_id
                /\ last'.out.events_written = Len(AppendedEvents(last'.out.run_id))
                /\ Appended(last'.out.run_id, "tool.result")
                      = {[seq |-> 5, kind |-> "tool.result",
                          data |-> [tool_name |-> last'.input.tool_name, ok |-> FALSE,
                                    error |-> err]]}
                /\ Cardinality(Appended(last'.out.run_id, "trust.post_snapshot")) = 1
                /\ Cardinality(Appended(last'.out.run_id, "trust.classification")) = 1]_vars

C22_Witness ==
    /\ last.tool = DISPATCH
    /\ last.ok
    /\ last.input.tool_name = "not.wired"
    /\ last.out.error = "Tool not wired: not.wired"
    /\ \E r \in DOMAIN ledger :
          /\ r # last.out.run_id
          /\ Len(EventsOf(ledger[r])) >= 5
          /\ EventsOf(ledger[r])[5].kind = "tool.result"
          /\ EventsOf(ledger[r])[5].data.ok = FALSE

----------------------------------------------------------------------------
(* C23 *)
(* the lines of the run files that are not ledger events *)
ForeignLines(led) ==
    {<<r, i>> \in (DOMAIN led) \X (1..(8 * (MaxDispatches + 1))) :
        i <= Len(led[r]) /\ ~IsLedgerEvent(led[r][i])}

(* C23: every line of every run file is an event the dispatcher wrote: no
   tool, whatever its input, appends to or alters a run file *)
C23_OnlyDispatcherWritesLedger == ForeignLines(ledger) = {}

----------------------------------------------------------------------------
(* C24 *)
OtherText == "another text"

(* the events a dispatch of inp would append to the file of run_id *)
EventsDispatched(inp, run_id, g) ==
    LET d == DispatchOutcome(inp.tool_name, inp.tool_input, run_id, g[1], g[2])
        after == EventsOf(d.ledger[run_id])
        before == Len(EventsOf(RunLines(ledger, run_id)))
    IN [i \in 1..(Len(after) - before) |-> after[before + i]]

(* an event with the record hash and the memory id of a receipt left out *)
WithoutHashAndId(e) ==
    IF e.kind = "memory.write"
    THEN [e EXCEPT !.data.memory_id = "", !.data.record_hash = TamperedHash]
    ELSE e

Masked(events) == [i \in 1..Len(events) |-> WithoutHashAndId(events[i])]

(* C24: the events a successful dispatch of memory.write appends are the
   events the same dispatch would have appended for an input that differs
   only in the record text, apart from the record hash and the memory id *)
C24_LedgerIndependentOfText ==
    [][(/\ last'.tool = DISPATCH
        /\ last'.ok
        /\ MemoryWriteSucceeded(last'))
          => \E g \in GitRuns :
                Masked(AppendedEvents(last'.out.run_id))
                   = Masked(EventsDispatched(
                                [last'.input EXCEPT !.tool_input.record.text = OtherText],
                                last'.out.run_id, g))]_vars

----------------------------------------------------------------------------
(* C25 *)
Present(git, k) == k \in DOMAIN git /\ git[k] \notin {"", "  "}

CleanAndUnchanged(pre, post) ==
    /\ "git" \in DOMAIN pre /\ "git" \in DOMAIN post
    /\ \A k \in {"branch", "head_commit"} :
          /\ Present(pre.git, k) /\ Present(post.git, k)
          /\ pre.git[k] = post.git[k]
    /\ \A s \in {pre, post} :
          /\ "is_clean" \in DOMAIN s.git /\ s.git.is_clean
          /\ s.git.modified_files = <<>>
          /\ s.git.untracked_files = <<>>

(* C25: evaluate_trust returns TRUSTED exactly when branch and head commit are
   present in both snapshots and equal between them, both snapshots are clean
   and their modified and untracked lists are empty; otherwise it returns
   TAINTED with at least one violation code *)
C25_TrustedIffCleanAndUnchanged ==
    last.tool = "trust.evaluate" =>
        IF CleanAndUnchanged(last.input.pre, last.input.post)
        THEN last.out.status = "TRUSTED" /\ last.out.violations = <<>>
        ELSE last.out.status = "TAINTED" /\ last.out.violations # <<>>

C25_Witness ==
    /\ last.tool = "trust.evaluate"
    /\ last.out.status = "TAINTED"
    /\ last.out.violations = <<"git.pre_not_clean">>

----------------------------------------------------------------------------
(* C26 *)
Classification(run_id) == Appended(run_id, "trust.classification")

(* C26: the trust protocol never blocks: every dispatch that gets past
   validation invokes the tool, whatever the snapshots show, and returns the
   ok, output and error it would return under any other state of the work
   tree, TRUSTED or TAINTED *)
C26_TrustNeverBlocks ==
    [][(last'.tool = DISPATCH /\ last'.ok)
          => /\ last'.executed = 1
             /\ \A g \in GitStates, h \in GitStates :
                   LET d == DispatchOutcome(last'.input.tool_name, last'.input.tool_input,
                                            last'.out.run_id, g, h)
                   IN /\ d.executed = 1
                      /\ d.result.ok = last'.out.ok
                      /\ d.result.output = last'.out.output
                      /\ d.result.error = last'.out.error]_vars

C26_Witness ==
    /\ last.tool = DISPATCH
    /\ last.ok
    /\ last.executed = 1
    /\ last.out.ok
    /\ MemoryWriteSucceeded(last)
    /\ \E r \in DOMAIN ledger :
          /\ r = last.out.run_id
          /\ EventsOf(ledger[r])[2].kind = "trust.pre_snapshot"
          /\ EventsOf(ledger[r])[2].data.git.branch = ""
          /\ EventsOf(ledger[r])[5].kind = "trust.classification"
          /\ EventsOf(ledger[r])[5].data.status = "TAINTED"

----------------------------------------------------------------------------
(* C27 *)
RECURSIVE SplitLines(_)
(* the lines of a file: the bytes before each newline *)
SplitLines(bytes) ==
    IF bytes = <<>> THEN <<>>
    ELSE LET ends == {k \in 1..Len(bytes) : bytes[k] = Newline}
         IN IF ends = {} THEN <<bytes>>
            ELSE LET k == CHOOSE e \in ends : \A f \in ends : e <= f
                 IN <<SubSeq(bytes, 1, k - 1)>> \o SplitLines(SubSeq(bytes, k + 1, Len(bytes)))

AllWritersDone == \A w \in Writers : procs[w].pc = "done"

(* C27: once concurrent writers have appended to the same registry file,
   every line of it is the complete record of exactly one writer (no line
   mixes bytes of two records) and every writer's record is one of its lines
   (none is lost) *)
C27_AppendsNeverInterleave ==
    AllWritersDone =>
        \A p \in REGISTRY_PATHS :
            LET lines == SplitLines(written[p])
                mine == {w \in Writers : procs[w].path = p}
            IN /\ Len(lines) = Cardinality(mine)
               /\ \A i \in 1..Len(lines) :
                     \E w \in mine : lines[i] = canonical_line(w, procs[w].size)
               /\ \A w \in mine :
                     \E i \in 1..Len(lines) : lines[i] = canonical_line(w, procs[w].size)

----------------------------------------------------------------------------
(* C28 *)
SharedRunLines == RunLines(ledger, SHARED_RUN_ID)

ReturnedSeqs == {<<t, i>> \in Threads \X (1..MaxCalls) : i <= Len(procs[t].returned)}

(* C28: when several threads call event() on the same RunLedger, the events
   get distinct seq values, the values are 1..n without gaps, and the lines
   of the run file are in increasing seq order *)
C28_ConcurrentEventsAreSequenced ==
    /\ \A i \in 1..Len(SharedRunLines) : SharedRunLines[i].seq = i
    /\ \A a \in ReturnedSeqs, b \in ReturnedSeqs :
          a # b => procs[a[1]].returned[a[2]] # procs[b[1]].returned[b[2]]
    /\ \A a \in ReturnedSeqs : procs[a[1]].returned[a[2]] \in 1..Len(SharedRunLines)
    /\ (\A t \in Threads : procs[t].pc = "idle")
          => Len(SharedRunLines) = Cardinality(ReturnedSeqs)

C28_Witness ==
    /\ Len(SharedRunLines) = 3
    /\ SharedRunLines[1].data.thread = 1
    /\ SharedRunLines[2].data.thread = 2
    /\ SharedRunLines[3].data.thread = 1
    /\ procs[2].pc = "acquire"
    /\ procs[1].returned = <<1, 3>>

----------------------------------------------------------------------------
(* C29 *)
SCHEMA_FIELDS ==
    {"artifact_id", "kind", "created_at_utc", "sha256", "byte_size", "media_type",
     "parent_artifact_ids"}

IsSchemaRecord(line, kinds) == SCHEMA_FIELDS \subseteq DOMAIN line /\ RecordValid(line, kinds)

(* C29: after any sequence of tool calls every line of the artifact registry
   is a schema-valid record of kind RAW, SANITIZED, BUNDLE_MANIFEST,
   BUILD_SPEC, WORK_ORDER, SNAPSHOT_ARCHIVE or SNAPSHOT_MANIFEST, and every
   line of the inference registry is a schema-valid record of kind
   INFERENCE_REQUEST, INFERENCE_RESPONSE, INFERENCE_ERROR or
   INFERENCE_RECEIPT *)
C29_RegistryLinesAreValid ==
    /\ \A i \in 1..Len(artReg) :
          IsSchemaRecord(artReg[i], ALLOWED_KINDS \cup {"SNAPSHOT_MANIFEST"})
    /\ \A i \in 1..Len(infReg) :
          IsSchemaRecord(infReg[i], INFERENCE_ALLOWED_KINDS)

----------------------------------------------------------------------------
(* C30 *)
POLICY_REJECT_MESSAGES ==
    {"policy_reject: provider must be 'openai' or 'anthropic'",
     "policy_reject: model not allowlisted by SPEC-008D",
     "policy_reject: temperature must be numeric",
     "policy_reject: temperature out of bounds [0.0, 1.0]",
     "policy_reject: max_tokens must be a positive int",
     "policy_reject: provider_max_tokens_cap must be injected (positive int)",
     "policy_reject: max_tokens exceeds provider hard cap"}

(* the request breaks a rule of the policy gate *)
BreaksPolicyRule(inp) ==
    \/ inp.provider \notin {"openai", "anthropic"}
    \/ inp.provider = "openai" /\ inp.model \notin OPENAI_ALLOWED_MODELS
    \/ inp.provider = "anthropic" /\ inp.model \notin ANTHROPIC_ALLOWED_MODELS
    \/ ~inp.temperature.num
    \/ inp.temperature.v < TEMPERATURE_MIN
    \/ inp.temperature.v > TEMPERATURE_MAX
    \/ ~inp.max_tokens.num
    \/ inp.max_tokens.v <= 0
    \/ inp.max_tokens.v > inp.provider_max_tokens_cap.v

(* C30: a request_emit call refused for breaking a policy rule (provider,
   allowlist, temperature numeric and within [0.0, 1.0], max_tokens an
   integer above 0 and not above the cap) raises an error whose message
   starts with "policy_reject:" *)
C30_PolicyRejectionsCarryPrefix ==
    (last.tool = "inference.request_emit" /\ BreaksPolicyRule(last.input))
        => ~last.ok /\ last.err \in POLICY_REJECT_MESSAGES

----------------------------------------------------------------------------
(* C31 *)
(* C31: every tool name of the canonical set is resolvable by a fresh
   LocalExecutor: execute_tool on such a name never fails with a
   tool-not-found error *)
C31_CanonicalToolsAreWired ==
    (last.tool = "execute_tool" /\ Strip(last.input.tool_name) \in CANONICAL_TOOL_NAMES)
        => last.found

(* C32 *)
(* members lists, root first, the records reached from canon_id by following
   the first parent: the last member is canon_id, every member is a registry
   record, each member's record names the member before it as its first
   parent, the first member's record has no parent, and no id occurs twice *)
IsFirstParentChain(reg, canon_id, members) ==
    /\ Len(members) >= 1
    /\ members[Len(members)].artifact_id = canon_id
    /\ \A i, j \in 1..Len(members) :
           i # j => members[i].artifact_id # members[j].artifact_id
    /\ \A i \in 1..Len(members) :
           \E k \in 1..Len(reg) :
               /\ reg[k].artifact_id = members[i].artifact_id
               /\ reg[k].sha256 = members[i].sha256
               /\ reg[k].byte_size = members[i].byte_size
               /\ reg[k].kind = members[i].kind
               /\ IF i = 1 THEN reg[k].parent_artifact_ids = <<>>
                  ELSE /\ reg[k].parent_artifact_ids # <<>>
                       /\ reg[k].parent_artifact_ids[1] = members[i-1].artifact_id

(* C32: a bundle_manifest call either fails and writes no file and no registry
   record, or succeeds and the manifest it names lists exactly the records
   reached from canon_id along first parents, root first and canon_id last,
   each artifact_id once *)
C32_BundleIsFirstParentChain ==
    [][last'.tool = "artifact.bundle_manifest"
         => IF last'.ok
            THEN LET path == PathOf(BUNDLES_DIR, last'.out.artifact_id, ".json") IN
                 /\ FileExists(files', path)
                 /\ IsFirstParentChain(artReg', last'.input.canon_artifact_id,
                                       files'[path].members)
            ELSE /\ files' = files
                 /\ artReg' = artReg]_vars

(* C33 *)
(* the positions of the SOURCE-BASED statements of a sanitized file *)
SourceBasedPositions(lines) == {i \in 1..Len(lines) : lines[i].type = "SOURCE-BASED"}

(* the k-th SOURCE-BASED statement of a sanitized file, counted from the top *)
NthSourceBased(lines, k) ==
    LET pos == SourceBasedPositions(lines)
        i == CHOOSE i \in pos : Cardinality({j \in pos : j < i}) = k - 1
    IN lines[i]

(* canon holds the SOURCE-BASED statements of lines, all of them, in the
   order of lines, and nothing else *)
IsSourceBasedSelection(canon, lines) ==
    /\ Len(canon) = Cardinality(SourceBasedPositions(lines))
    /\ \A k \in 1..Len(canon) :
           /\ canon[k].text = NthSourceBased(lines, k).text
           /\ canon[k].type = "SOURCE-BASED"
    /\ \A k \in 1..Len(canon) : canon[k].type \notin {"QUESTION", "ASSUMPTION"}

(* C33: the file a canon_select call writes holds exactly the SOURCE-BASED
   statements of its sanitized input, in the input's order, and no QUESTION
   or ASSUMPTION statement *)
C33_CanonIsSourceBasedSelection ==
    [][(last'.tool = "artifact.canon_select" /\ last'.ok /\ files' # files)
         => LET canon_path == PathOf(BUNDLES_DIR, last'.out.artifact_id, ".jsonl")
                sanitized_path == PathOf(SANITIZED_DIR,
                                         last'.input.sanitized_artifact_id, ".jsonl")
            IN IsSourceBasedSelection(files'[canon_path].lines,
                                      files[sanitized_path].lines)]_vars

(* a canon file of two SOURCE-BASED statements selected from a sanitized
   file that holds a QUESTION or ASSUMPTION statement between them *)
C33_Witness ==
    /\ last.tool = "artifact.canon_select"
    /\ last.ok
    /\ LET canon == files[PathOf(BUNDLES_DIR, last.out.artifact_id, ".jsonl")].lines
           lines == files[PathOf(SANITIZED_DIR, last.input.sanitized_artifact_id,
                                 ".jsonl")].lines
       IN /\ Len(lines) = 3
          /\ lines[1].type = "SOURCE-BASED"
          /\ lines[2].type \in {"QUESTION", "ASSUMPTION"}
          /\ lines[3].type = "SOURCE-BASED"
          /\ lines[1].text # lines[3].text
          /\ canon = <<lines[1], lines[3]>>

(* C34 *)
(* the JSON object of a file with one of its fields taken out *)
WithoutField(obj, field) == [k \in DOMAIN obj \ {"fmt", field} |-> obj[k]]

WorkOrderFiles == {p \in DOMAIN files : p[1] = WORK_ORDERS_DIR /\ p[3] = ".json"}

BundleManifestFiles == {p \in DOMAIN files : p[1] = BUNDLES_DIR /\ p[3] = ".json"}

(* C34: every work-order file carries a work_order_hash, and every bundle
   manifest file a bundle_hash, equal to the SHA-256 of the canonical
   serialization of the file's own object with that hash field removed *)
C34_HashFieldCoversPayload ==
    /\ \A p \in WorkOrderFiles :
           files[p].work_order_hash = Sha256(WithoutField(files[p], "work_order_hash"))
    /\ \A p \in BundleManifestFiles :
           files[p].bundle_hash = Sha256(WithoutField(files[p], "bundle_hash"))

(* a work order and a bundle manifest are both on disk *)
C34_Witness ==
    /\ WorkOrderFiles # {}
    /\ \E p \in BundleManifestFiles : Len(files[p].members) >= 3

(* C35 *)
(* two trees hold the same set of files with the same contents *)
SameFilesAndContents(one, other) ==
    /\ DOMAIN one = DOMAIN other
    /\ \A n \in DOMAIN one : one[n].bytes = other[n].bytes

SamePermissionBits(one, other) ==
    \A n \in DOMAIN one \cap DOMAIN other : one[n].st_mode % 512 = other[n].st_mode % 512

(* C35 as stated: two runs over trees that hold the same files with the same
   contents produce the same plaintext archive SHA-256 *)
C35_SameFilesSameArchive ==
    (last.tool = "_build_plain_tar"
         /\ SameFilesAndContents(last.input.one, last.input.other))
        => last.out.one = last.out.other

(* C35 amended: two runs over trees that hold the same files with the same
   contents and the same permission bits produce the same plaintext archive
   SHA-256, whatever the clock, the files' times and owners, the invoking
   user and the order of the directory listing *)
C35_SameFilesAndModesSameArchive ==
    (last.tool = "_build_plain_tar"
         /\ SameFilesAndContents(last.input.one, last.input.other)
         /\ SamePermissionBits(last.input.one, last.input.other))
        => last.out.one = last.out.other

(* two files archived in runs that differ in clock, user, listing order and
   in the times and owners of the files, with one archive hash *)
C35_Witness ==
    /\ last.tool = "_build_plain_tar"
    /\ DOMAIN last.input.one = ArcNames
    /\ SameFilesAndContents(last.input.one, last.input.other)
    /\ SamePermissionBits(last.input.one, last.input.other)
    /\ \A n \in ArcNames : last.input.one[n].owned # last.input.other[n].owned
    /\ last.input.env_one # last.input.env_other
    /\ last.out.one = last.out.other

(* C36 *)
(* C36: when request_emit returns successfully without writing (through its
   idempotency gate), the request file on disk is the request this call's
   inputs build: a call that reuses a request_id with other request content
   does not return success on the old file *)
C36_GateReturnsWhatInputsProduce ==
    [][(last'.tool = "inference.request_emit" /\ last'.ok /\ files' = files)
         => files'[PathOf(REQUESTS_DIR, last'.out.artifact_id, ".json")]
                = BuildInferenceRequest(last'.input).req]_vars

(* C37 *)
PIPELINE_AND_EMITTER_TOOLS ==
    STAGES_WITH_PARENT
        \cup {"artifact.ingest", "inference.request_emit", "inference.response_emit",
              "inference.error_emit", "inference.receipt_emit"}

(* C37: a pipeline or inference-emitter call that raises leaves both
   registries, every artifact file and every artifact directory as they were
   before the call *)
C37_RaiseLeavesStoreUntouched ==
    [][(last'.tool \in PIPELINE_AND_EMITTER_TOOLS /\ ~last'.ok)
         => /\ files' = files
            /\ dirs' = dirs
            /\ artReg' = artReg
            /\ infReg' = infReg]_vars

(* C38 *)
(* the ids some record with an artifact_id in ids names as a parent *)
ParentsOf(reg, ids) ==
    UNION {{reg[i].parent_artifact_ids[k] : k \in 1..Len(reg[i].parent_artifact_ids)} :
              i \in {j \in 1..Len(reg) : reg[j].artifact_id \in ids}}

(* the ids reached from ids along one or more parent edges *)
RECURSIVE AncestorsOf(_, _, _)
AncestorsOf(reg, ids, found) ==
    LET next == ParentsOf(reg, ids) \ found IN
    IF next = {} THEN found ELSE AncestorsOf(reg, next, found \cup next)

(* C38: in each registry the parent_artifact_ids edges form an acyclic graph
   over artifact ids: no record names its own id as a parent and no chain of
   parent edges returns to the id it started from *)
C38_ParentEdgesAreAcyclic ==
    \A reg \in {artReg, infReg} :
        \A i \in 1..Len(reg) :
            reg[i].artifact_id \notin AncestorsOf(reg, {reg[i].artifact_id}, {})

(* C39 *)
(* parent is what the pipeline prescribes as the input of the stage that
   wrote rec; canon selections and bundle manifests share the kind
   BUNDLE_MANIFEST and are told apart by the tool named in notes *)
IsPrescribedParent(rec, parent) ==
    CASE rec.kind = "SANITIZED" -> parent.kind = "RAW"
      [] rec.kind = "BUNDLE_MANIFEST" /\ rec.notes = "artifact.canon_select" ->
             parent.kind = "SANITIZED"
      [] rec.kind = "BUNDLE_MANIFEST" /\ rec.notes # "artifact.canon_select" ->
             parent.kind = "BUNDLE_MANIFEST" /\ parent.notes = "artifact.canon_select"
      [] rec.kind = "BUILD_SPEC" ->
             parent.kind = "BUNDLE_MANIFEST" /\ parent.notes = "artifact.bundle_manifest"
      [] rec.kind = "WORK_ORDER" -> parent.kind = "BUILD_SPEC"
      [] rec.kind \in {"SNAPSHOT_ARCHIVE", "SNAPSHOT_MANIFEST"} -> parent.kind = "WORK_ORDER"
      [] OTHER -> TRUE

(* C39: every parent of a non-RAW record of the artifact registry is a
   registered artifact of the kind the pipeline prescribes for the stage:
   SANITIZED from RAW, canon selection from SANITIZED, bundle manifest from
   canon selection, BUILD_SPEC from bundle manifest, WORK_ORDER from
   BUILD_SPEC, snapshot records from WORK_ORDER *)
C39_ParentsHavePrescribedKind ==
    \A i \in 1..Len(artReg) :
        artReg[i].kind # "RAW"
            => \A k \in 1..Len(artReg[i].parent_artifact_ids) :
                   \E j \in 1..Len(artReg) :
                       /\ artReg[j].artifact_id = artReg[i].parent_artifact_ids[k]
                       /\ IsPrescribedParent(artReg[i], artReg[j])

(* C40 *)
(* the request gets past the two checks dispatch makes on its arguments *)
PassesInputValidation(inp) ==
    /\ Strip(inp.tool_name) # ""
    /\ inp.tool_input # NotADict

(* C40: every dispatch call that passes input validation returns, and the
   events it appended to its run file form one block that begins with
   run.start and ends with run.end, whose run.end carries the returned ok
   and whose length is the returned events_written *)
C40_DispatchAppendsWholeBlock ==
    [][(last'.tool = DISPATCH /\ PassesInputValidation(last'.input))
         => /\ last'.ok
            /\ LET block == AppendedEvents(last'.out.run_id) IN
               /\ Len(block) >= 2
               /\ block[1].kind = "run.start"
               /\ block[Len(block)].kind = "run.end"
               /\ block[Len(block)].data.ok = last'.out.ok
               /\ \A i \in 2..(Len(block) - 1) :
                      block[i].kind \notin {"run.start", "run.end"}
               /\ last'.out.events_written = Len(block)]_vars

=============================================================================
